---- MODULE Spec2Model ----
(***************************************************************************)
(* State-machine model of the MineSync core (src-tauri/src):               *)
(*   - DownloadService      (services/download.rs)                         *)
(*   - SyncProtocolService  (services/sync_protocol/mod.rs) and the sync   *)
(*     commands (commands/sync_protocol.rs), apply_diff, compute_diff      *)
(*   - InstallService       (services/install.rs)                          *)
(*   - the catalog          (services/database.rs)                         *)
(*   - P2pService           (services/p2p/mod.rs, swarm_loop.rs)           *)
(*   - UnifiedModClient     (services/mod_platform/mod.rs)                 *)
(*   - JavaService          (services/java.rs)                             *)
(*   - share codes          (services/p2p/share_code.rs)                   *)
(* The specifications share the variables: Spec (install pipeline),        *)
(* SpecSync (pending-sync state machine), SpecDownload (downloader),       *)
(* SpecCallers, SpecWorkers, SpecPaths, SpecDiff, SpecP2p, SpecMods,       *)
(* SpecCatalog (the commands that write the catalog), SpecShareCode,       *)
(* SpecRemoveMod, SpecJava and SpecApply (concurrent apply_sync calls).    *)
(***************************************************************************)
EXTENDS Integers, Sequences, FiniteSets, TLC

VARIABLES
    \* ---- DownloadService -------------------------------------------------
    dprogress,      \* DownloadService.progress (DownloadProgress)
    d_phase,        \* position of the download_all call: idle/running/returned
    d_tasks,        \* the tasks argument of the running download_all call
    d_st,           \* per task index: the spawned worker's position and history
    d_requests,     \* GET requests issued by the current download_all call
    d_calls,        \* number of download_all calls started so far
    d_ret,          \* value returned by the last download_all call
    disk,           \* dest path -> file body (None when the file is absent)
    disk_at_call,   \* the disk as it was when the current call started
    \* ---- catalog (DatabaseService) ---------------------------------------
    db_instances,   \* rows of table instances, in insertion order
    db_mods,        \* rows of table instance_mods, in insertion order
    next_uuid,      \* number of instance ids drawn from Uuid::new_v4 so far
    \* ---- SyncProtocolService ---------------------------------------------
    pending_syncs,  \* SyncProtocolService.pending_syncs: session id -> PendingSync
    next_session,   \* number of session ids drawn so far
    ap,             \* per apply_sync invocation: its position and locals
    sync_last,      \* the last command step and what it returned
    \* ---- InstallService, file system --------------------------------------
    install_in_progress,  \* InstallService.install_in_progress (AtomicBool)
    iprogress,      \* InstallService.progress (InstallProgress)
    inv,            \* per install invocation: its position and locals
    fs_dirs,        \* ids whose directory {base_dir}/instances/{id} exists
    mod_files,      \* <<id, file_name>>: {instance_path}/mods/{file_name} exists
    \* ---- callers of the shared DownloadService, function evaluations -------
    callers,        \* per caller of download_all: its position and locals
    fx,             \* the last evaluation of a pure function: input and result
    \* ---- P2pService ------------------------------------------------------
    p2p,            \* per started service: flag, command channel, swarm task
    p2p_state,      \* the managed Option<P2pService> and the command using it
    \* ---- JavaService -----------------------------------------------------
    java            \* status, install lock, and the calls in flight

dvars == <<dprogress, d_phase, d_tasks, d_st, d_requests, d_calls, d_ret,
           disk, disk_at_call>>

cvars == <<db_instances, db_mods, next_uuid>>

svars == <<pending_syncs, next_session, ap, sync_last>>

ivars == <<install_in_progress, iprogress, inv, fs_dirs, mod_files>>

pvars == <<p2p, p2p_state>>

kvars == <<callers, fx, pvars, java>>

vars == <<dvars, cvars, svars, ivars, kvars>>

None == "None"

\* ---------------------------------------------------------------------------
\* Bounds
\* ---------------------------------------------------------------------------
MaxTasks == 2       \* longest task list handed to download_all
MaxCalls == 1       \* download_all calls per behaviour
MaxSessions == 2    \* pending-sync sessions created per behaviour
MaxInstances == 1   \* instance ids drawn per behaviour
NumAppliers == 2    \* apply_sync invocations that can be in flight
NumInstallers == 2  \* install_mod / install_modpack invocations in flight
MaxMods == 2        \* mod rows in the catalog when install_mod is admitted
NumCallers == 2     \* invocations that reach download_all concurrently
MaxCallTasks == 2   \* tasks a caller hands to download_all
MaxPending == 5     \* pending tasks of the call whose workers share the semaphore
MaxPathLen == 4     \* characters of a path string
ZipNameLen == 3     \* characters of a generated archive entry name
MaxEntries == 2     \* entries of an archive
MaxListLen == 2     \* entries of a mod list handed to compute_diff / apply_diff
MaxStarts == 1      \* P2pService::start calls
MaxShares == 2      \* share_modpack commands per started service
MaxQueued == 2      \* commands waiting in the command channel
MaxPeers == 1       \* connections counted by the swarm task
MaxHits == 2        \* hits in one platform's search response
MaxProjects == 2    \* projects of a dependency graph
MaxPeerIdLen == 7   \* bytes of a peer id handed to generate_share_code
NumStatusCalls == 2 \* JavaService::status calls that can be in flight

\* ---------------------------------------------------------------------------
\* Program constants
\* ---------------------------------------------------------------------------
MAX_RETRIES == 3
DEFAULT_CONCURRENT == 4
CODE_LENGTH == 6

\* ---------------------------------------------------------------------------
\* Small generic helpers
\* ---------------------------------------------------------------------------
RECURSIVE SeqSum(_)
SeqSum(s) == IF s = <<>> THEN 0 ELSE Head(s) + SeqSum(Tail(s))

Occurrences(s, x) == Cardinality({i \in DOMAIN s : s[i] = x})

SeqsUpTo(S, n) == UNION {[1..k -> S] : k \in 0..n}

\* ===========================================================================
\* DownloadService (services/download.rs)
\* ===========================================================================

\* File bodies the disk or a server can hold, with their length in bytes.
Bodies == {"b0", "b1", "b2"}

\* Bodies a server sends.
ServerBodies == {"b1", "b2"}

BodyLen(b) == CASE b = "b0" -> 0
                [] b = "b1" -> 2
                [] b = "b2" -> 2

\* compute_sha1: lower-case hex digest of the bytes.
compute_sha1(b) == CASE b = "b0" -> "da39"
                     [] b = "b1" -> "1f0a"
                     [] b = "b2" -> "77c2"

Dests == {"d1", "d2"}

\* DownloadTask values handed to download_all.
TaskPool ==
    { [url |-> "u1", dest |-> "d1", sha1 |-> "1f0a", size |-> 2],
      [url |-> "u2", dest |-> "d2", sha1 |-> None,   size |-> 2],
      [url |-> "u3", dest |-> "d2", sha1 |-> None,   size |-> 0] }

\* What one GET can produce: a transport error, a non-2xx status, or a body.
Responses == {"net_error", "http_error"} \cup ServerBodies

DownloadProgressNew ==
    [total_files |-> 0, completed_files |-> 0, total_bytes |-> 0,
     downloaded_bytes |-> 0, failed_files |-> <<>>, state |-> "idle"]

is_file_cached_distrust_sha1(task, dsk) ==
    IF dsk[task.dest] = None THEN FALSE
    ELSE IF BodyLen(dsk[task.dest]) # task.size \/ task.size = 0 THEN FALSE
    ELSE IF task.sha1 # None THEN FALSE
    ELSE TRUE

\* is_file_cached: metadata ok, length equal to the declared non-zero size,
\* and the sha1 of the file equal to the declared one when there is one.
is_file_cached(task, dsk) ==
    IF dsk[task.dest] = None THEN FALSE
    ELSE IF BodyLen(dsk[task.dest]) # task.size \/ task.size = 0 THEN FALSE
    ELSE IF task.sha1 # None /\ compute_sha1(dsk[task.dest]) # task.sha1
         THEN FALSE
    ELSE TRUE

\* filter_cached: the indices of the tasks that are still to be downloaded.
filter_cached(tasks, dsk) ==
    {i \in DOMAIN tasks : ~is_file_cached(tasks[i], dsk)}

WorkerNew(pcv) ==
    [pc |-> pcv, attempt |-> 0, gets |-> 0, sha1_seen |-> FALSE,
     io_seen |-> FALSE, wrote |-> FALSE, bytes |-> 0]

\* Workers that hold a semaphore permit.
Holding == {i \in DOMAIN d_st : d_st[i].pc = "trying"}

Terminal == {"cached", "done", "failed", "errored"}

\* download_all, lines 75-98: reset the snapshot, skip the cached tasks and
\* spawn one worker per pending task.
DownloadAllStart(tasks) ==
    /\ d_phase \in {"idle", "returned"}
    /\ d_calls < MaxCalls
    /\ LET pending == filter_cached(tasks, disk)
           skipped == Len(tasks) - Cardinality(pending)
       IN /\ dprogress' =
                [total_files |-> Len(tasks),
                 completed_files |-> skipped,
                 total_bytes |-> SeqSum([i \in DOMAIN tasks |-> tasks[i].size]),
                 downloaded_bytes |-> 0,
                 failed_files |-> <<>>,
                 state |-> "downloading"]
          /\ d_st' = [i \in DOMAIN tasks |->
                        IF i \in pending THEN WorkerNew("spawned")
                                         ELSE WorkerNew("cached")]
    /\ d_tasks' = tasks
    /\ d_phase' = "running"
    /\ d_requests' = 0
    /\ d_calls' = d_calls + 1
    /\ d_ret' = None
    /\ disk_at_call' = disk
    /\ UNCHANGED <<disk, cvars, svars, ivars, kvars>>

\* A worker that starts download_file without waiting for a permit.
WorkerAcquireNoPermit(i, mkdir_ok) ==
    /\ d_phase = "running"
    /\ i \in DOMAIN d_st
    /\ d_st[i].pc = "spawned"
    /\ d_st' = [d_st EXCEPT ![i] =
                  IF mkdir_ok THEN [@ EXCEPT !.pc = "trying", !.attempt = 1]
                              ELSE [@ EXCEPT !.pc = "errored"]]
    /\ UNCHANGED <<dprogress, d_phase, d_tasks, d_requests, d_calls, d_ret,
                   disk, disk_at_call, cvars, svars, ivars, kvars>>

\* The spawned worker, lines 108-113 and 145-147: take a permit, then
\* create the parent directory of dest; a failure there ends download_file
\* with an error before any attempt.
WorkerAcquire(i, mkdir_ok) ==
    /\ d_phase = "running"
    /\ i \in DOMAIN d_st
    /\ d_st[i].pc = "spawned"
    /\ Cardinality(Holding) < DEFAULT_CONCURRENT
    /\ d_st' = [d_st EXCEPT ![i] =
                  IF mkdir_ok THEN [@ EXCEPT !.pc = "trying", !.attempt = 1]
                              ELSE [@ EXCEPT !.pc = "errored"]]
    /\ UNCHANGED <<dprogress, d_phase, d_tasks, d_requests, d_calls, d_ret,
                   disk, disk_at_call, cvars, svars, ivars, kvars>>

\* try_download, lines 179-211: the outcome of one attempt.
\*   "net" / "http" / "sha1" / "io" name the failure, "ok" a written file.
try_download(task, resp, write_ok) ==
    IF resp = "net_error" THEN "net"
    ELSE IF resp = "http_error" THEN "http"
    ELSE IF task.sha1 # None /\ compute_sha1(resp) # task.sha1 THEN "sha1"
    ELSE IF ~write_ok THEN "io"
    ELSE "ok"

\* Record which kind of failure the worker has seen.
Seen(w, kind) ==
    [w EXCEPT !.sha1_seen = @ \/ kind = "sha1", !.io_seen = @ \/ kind = "io"]

\* download_file, lines 149-170: what a failed attempt does to the worker and
\* to failed_files.

FailedAttemptAlwaysPush(w, task, kind, prog) ==
    [w |-> [Seen(w, kind) EXCEPT
                !.pc = IF w.attempt < MAX_RETRIES THEN "trying" ELSE "failed",
                !.attempt = IF w.attempt < MAX_RETRIES THEN @ + 1 ELSE @],
     prog |-> [prog EXCEPT !.failed_files = Append(@, task.url)]]

FailedAttempt(w, task, kind, prog) ==
    IF w.attempt < MAX_RETRIES
    THEN [w |-> [Seen(w, kind) EXCEPT !.attempt = @ + 1],
          prog |-> prog]
    ELSE [w |-> [Seen(w, kind) EXCEPT !.pc = "failed"],
          prog |-> [prog EXCEPT !.failed_files = Append(@, task.url)]]

\* One iteration of the retry loop of download_file for worker i.
WorkerAttempt(i, resp, write_ok) ==
    /\ d_phase = "running"
    /\ i \in DOMAIN d_st
    /\ d_st[i].pc = "trying"
    /\ LET task == d_tasks[i]
           kind == try_download(task, resp, write_ok)
           w0   == [d_st[i] EXCEPT !.gets = @ + 1]
           \* line 206: the byte counter moves once the body is verified
           p0   == IF kind \in {"ok", "io"}
                   THEN [dprogress EXCEPT !.downloaded_bytes = @ + BodyLen(resp)]
                   ELSE dprogress
       IN IF kind = "ok"
          THEN /\ disk' = [disk EXCEPT ![task.dest] = resp]
               /\ d_st' = [d_st EXCEPT ![i] = [w0 EXCEPT !.pc = "done", !.wrote = TRUE,
                                                        !.bytes = BodyLen(resp)]]
               /\ dprogress' = [p0 EXCEPT !.completed_files = @ + 1]
          ELSE LET r == FailedAttempt(w0, task, kind, p0)
               IN /\ d_st' = [d_st EXCEPT ![i] = r.w]
                  /\ dprogress' = r.prog
                  /\ UNCHANGED disk
    /\ d_requests' = d_requests + 1
    /\ UNCHANGED <<d_phase, d_tasks, d_calls, d_ret, disk_at_call, cvars, svars, ivars, kvars>>

\* download_all, lines 117-139: after every worker was joined, finalise the
\* state and return Ok(()).
DownloadAllFinish ==
    /\ d_phase = "running"
    /\ \A i \in DOMAIN d_st : d_st[i].pc \in Terminal
    /\ dprogress' = [dprogress EXCEPT !.state =
                        IF dprogress.failed_files = <<>> THEN "completed"
                                                         ELSE "failed"]
    /\ d_phase' = "returned"
    /\ d_ret' = "Ok"
    /\ UNCHANGED <<d_tasks, d_st, d_requests, d_calls, disk, disk_at_call,
                   cvars, svars, ivars, kvars>>

\* ===========================================================================
\* Catalog (services/database.rs)
\* ===========================================================================

\* Mod names, in the order SQLite's ORDER BY mod_name ASC gives them.
Names == <<"a", "b", "m.jar", "x.jar">>

NameRank(n) == CHOOSE k \in DOMAIN Names : Names[k] = n

\* An Option<T> of a record is <<>> (None) or <<value>> (Some).
\* get_instance: SELECT ... WHERE id = ?1 AND is_active = 1.
get_instance(insts, id) ==
    IF \E k \in DOMAIN insts : insts[k].id = id /\ insts[k].is_active
    THEN <<insts[CHOOSE k \in DOMAIN insts : insts[k].id = id /\ insts[k].is_active]>>
    ELSE <<>>

\* The instances table holds a row (active or not) with this id.
InstanceRowExists(insts, id) == \E k \in DOMAIN insts : insts[k].id = id

\* create_instance: INSERT INTO instances; the id is the primary key.
create_instance(insts, row) ==
    IF InstanceRowExists(insts, row.id)
    THEN [ok |-> FALSE, insts |-> insts]
    ELSE [ok |-> TRUE, insts |-> Append(insts, row)]

\* add_mod_to_instance: INSERT INTO instance_mods. The row id (a fresh uuid in
\* the code) is the position of the row; instance_id REFERENCES instances(id)
\* with foreign keys on, so a row for an unknown instance is refused.
add_mod_to_instance(mods, insts, m) ==
    IF InstanceRowExists(insts, m.instance_id)
    THEN [ok |-> TRUE,
          mods |-> Append(mods, [m EXCEPT !.id = Len(mods) + 1])]
    ELSE [ok |-> FALSE, mods |-> mods]

\* Rows idxs of table rows, ordered by mod_name and then by row position.
RECURSIVE OrderByName(_, _)
OrderByName(rows, idxs) ==
    IF idxs = {} THEN <<>>
    ELSE LET m == CHOOSE i \in idxs : \A j \in idxs :
                     \/ NameRank(rows[i].name) < NameRank(rows[j].name)
                     \/ NameRank(rows[i].name) = NameRank(rows[j].name) /\ i <= j
         IN <<rows[m]>> \o OrderByName(rows, idxs \ {m})

\* list_instance_mods: the active rows of the instance, ORDER BY mod_name ASC.
list_instance_mods(mods, iid) ==
    OrderByName(mods, {k \in DOMAIN mods :
                         mods[k].instance_id = iid /\ mods[k].is_active})

\* remove_mod_from_instance: UPDATE instance_mods SET is_active = 0 WHERE id.
remove_mod_from_instance(mods, id) ==
    [k \in DOMAIN mods |->
        IF mods[k].id = id THEN [mods[k] EXCEPT !.is_active = FALSE] ELSE mods[k]]

\* get_mod_by_id: the row with this id, if any; active_only tells whether
\* the lookup is restricted to active rows.
get_mod_by_id(mods, id, active_only) ==
    LET hits == {k \in DOMAIN mods :
                   mods[k].id = id /\ (active_only => mods[k].is_active)}
    IN IF hits = {} THEN <<>> ELSE <<mods[CHOOSE k \in hits : TRUE]>>

\* delete_instance: UPDATE instances SET is_active = 0 WHERE id; no other
\* table is written.
delete_instance(insts, mods, id) ==
    [insts |-> [k \in DOMAIN insts |->
                  IF insts[k].id = id THEN [insts[k] EXCEPT !.is_active = FALSE]
                  ELSE insts[k]],
     mods |-> mods]

\* ===========================================================================
\* compute_diff (services/sync_protocol/manifest_diff.rs)
\* ===========================================================================

EntryNames(entries) == {entries[k].mod_name : k \in DOMAIN entries}

\* HashMap<&str, &SyncModEntry> collected from the mods list: for a name that
\* occurs more than once the later entry replaces the earlier one.
by_name(entries) ==
    [n \in EntryNames(entries) |->
        entries[CHOOSE k \in DOMAIN entries :
                   /\ entries[k].mod_name = n
                   /\ \A j \in DOMAIN entries : entries[j].mod_name = n => j <= k]]

\* The values selected from a name-keyed map, as a list. The code iterates a
\* HashMap, whose order is unspecified; the lists are kept in name order.
RECURSIVE MapToSeq(_, _)
MapToSeq(m, keys) ==
    IF keys = {} THEN <<>>
    ELSE LET n == CHOOSE x \in keys : \A y \in keys : NameRank(x) <= NameRank(y)
         IN <<m[n]>> \o MapToSeq(m, keys \ {n})

\* A comparison that looks at the versions only.
mod_needs_update_by_version(l, r) == l.mod_version # r.mod_version

\* mod_needs_update: hashes when both sides have one, versions otherwise.
mod_needs_update(l, r) ==
    IF l.file_hash # None /\ r.file_hash # None
    THEN l.file_hash # r.file_hash
    ELSE l.mod_version # r.mod_version

find_additions(local, remote) ==
    MapToSeq(remote, {n \in DOMAIN remote : n \notin DOMAIN local})

find_removals(local, remote) ==
    MapToSeq(local, {n \in DOMAIN local : n \notin DOMAIN remote})

find_updates(local, remote) ==
    LET upd == [n \in {x \in DOMAIN local :
                          x \in DOMAIN remote /\ mod_needs_update(local[x], remote[x])}
                  |-> [mod_name |-> n,
                       local_version |-> local[n].mod_version,
                       remote_version |-> remote[n].mod_version,
                       remote_file_name |-> remote[n].file_name,
                       remote_hash |-> remote[n].file_hash]]
    IN MapToSeq(upd, DOMAIN upd)

detect_version_mismatch(local, remote) ==
    IF local.minecraft_version # remote.minecraft_version
         \/ local.loader_type # remote.loader_type
    THEN [local_mc_version |-> local.minecraft_version,
          remote_mc_version |-> remote.minecraft_version,
          local_loader |-> local.loader_type,
          remote_loader |-> remote.loader_type]
    ELSE None

compute_diff(local, remote) ==
    LET l == by_name(local.mods)
        r == by_name(remote.mods)
    IN [to_add |-> find_additions(l, r),
        to_remove |-> find_removals(l, r),
        to_update |-> find_updates(l, r),
        version_mismatch |-> detect_version_mismatch(local, remote)]

\* ===========================================================================
\* apply_diff (services/sync_protocol/apply_diff.rs)
\* ===========================================================================

\* Store faults an apply_diff call can meet: a failing listing in
\* apply_removals or apply_updates, and the names whose row writes fail.
NoFault == [list_rm |-> FALSE, list_up |-> FALSE, write |-> {}]

StoreFaults ==
    { NoFault,
      [list_rm |-> TRUE,  list_up |-> FALSE, write |-> {}],
      [list_rm |-> FALSE, list_up |-> TRUE,  write |-> {}],
      [list_rm |-> FALSE, list_up |-> FALSE, write |-> {"a"}] }

\* The faults met by the apply_sync calls of SpecSync.
SyncStoreFaults == {NoFault}

ApplyResultNew ==
    [mods_added |-> <<>>, mods_removed |-> <<>>, mods_updated |-> <<>>,
     errors |-> <<>>]

\* existing_mods.iter().find(|m| m.name == name)
FindByName(existing, name) ==
    IF \E k \in DOMAIN existing : existing[k].name = name
    THEN <<existing[CHOOSE k \in DOMAIN existing :
                     /\ existing[k].name = name
                     /\ \A j \in DOMAIN existing : existing[j].name = name => k <= j]>>
    ELSE <<>>

ModRow(iid, name, version, file_name, file_hash) ==
    [id |-> 0, instance_id |-> iid, name |-> name, version |-> version,
     file_name |-> file_name, file_hash |-> file_hash, is_active |-> TRUE]

\* apply_removals, the loop over to_remove; st = [mods, res].
RECURSIVE RemovalsLoop(_, _, _, _)
RemovalsLoop(st, existing, to_remove, f) ==
    IF to_remove = <<>> THEN st
    ELSE LET e == Head(to_remove)
             found == FindByName(existing, e.mod_name)
             st1 == IF found = <<>> THEN st
                    ELSE IF e.mod_name \in f.write
                    THEN [st EXCEPT !.res.errors =
                             Append(@, <<"remove", e.mod_name>>)]
                    ELSE [mods |-> remove_mod_from_instance(st.mods, found[1].id),
                          res |-> [st.res EXCEPT !.mods_removed =
                                      Append(@, e.mod_name)]]
         IN RemovalsLoop(st1, existing, Tail(to_remove), f)

apply_removals(st, iid, to_remove, f) ==
    IF f.list_rm
    THEN [st EXCEPT !.res.errors = Append(@, <<"list", "removals">>)]
    ELSE RemovalsLoop(st, list_instance_mods(st.mods, iid), to_remove, f)

RECURSIVE apply_additions(_, _, _, _, _)
apply_additions(st, insts, iid, to_add, f) ==
    IF to_add = <<>> THEN st
    ELSE LET e == Head(to_add)
             r == add_mod_to_instance(st.mods, insts,
                     ModRow(iid, e.mod_name, e.mod_version, e.file_name, e.file_hash))
             st1 == IF r.ok /\ e.mod_name \notin f.write
                    THEN [mods |-> r.mods,
                          res |-> [st.res EXCEPT !.mods_added = Append(@, e.mod_name)]]
                    ELSE [st EXCEPT !.res.errors = Append(@, <<"add", e.mod_name>>)]
         IN apply_additions(st1, insts, iid, Tail(to_add), f)

\* apply_updates, the loop over to_update.
RECURSIVE UpdatesLoop(_, _, _, _, _, _)
UpdatesLoop(st, insts, iid, existing, to_update, f) ==
    IF to_update = <<>> THEN st
    ELSE LET u == Head(to_update)
             found == FindByName(existing, u.mod_name)
             rm_fails == found # <<>> /\ u.mod_name \in f.write
             mods1 == IF found = <<>> THEN st.mods
                      ELSE remove_mod_from_instance(st.mods, found[1].id)
             r == add_mod_to_instance(mods1, insts,
                     ModRow(iid, u.mod_name, u.remote_version,
                            u.remote_file_name, u.remote_hash))
             st1 == IF rm_fails
                    THEN [st EXCEPT !.res.errors =
                             Append(@, <<"remove_old", u.mod_name>>)]
                    ELSE IF r.ok /\ u.mod_name \notin f.write
                    THEN [mods |-> r.mods,
                          res |-> [st.res EXCEPT !.mods_updated =
                                      Append(@, u.mod_name)]]
                    ELSE [mods |-> mods1,
                          res |-> [st.res EXCEPT !.errors =
                                      Append(@, <<"add_updated", u.mod_name>>)]]
         IN UpdatesLoop(st1, insts, iid, existing, Tail(to_update), f)

apply_updates(st, insts, iid, to_update, f) ==
    IF f.list_up
    THEN [st EXCEPT !.res.errors = Append(@, <<"list", "updates">>)]
    ELSE UpdatesLoop(st, insts, iid, list_instance_mods(st.mods, iid),
                     to_update, f)

\* An apply_diff that returns after the first phase that recorded an error.
apply_diff_stop_on_error(mods, insts, iid, diff, f) ==
    LET s0 == [mods |-> mods, res |-> ApplyResultNew]
        s1 == apply_removals(s0, iid, diff.to_remove, f)
        s2 == IF s1.res.errors # <<>> THEN s1
              ELSE apply_additions(s1, insts, iid, diff.to_add, f)
        s3 == IF s2.res.errors # <<>> THEN s2
              ELSE apply_updates(s2, insts, iid, diff.to_update, f)
    IN s3

\* apply_diff: removals, then additions, then updates; always Ok(result).
apply_diff(mods, insts, iid, diff, f) ==
    LET s0 == [mods |-> mods, res |-> ApplyResultNew]
        s1 == apply_removals(s0, iid, diff.to_remove, f)
        s2 == apply_additions(s1, insts, iid, diff.to_add, f)
        s3 == apply_updates(s2, insts, iid, diff.to_update, f)
    IN s3

\* ===========================================================================
\* SyncProtocolService (services/sync_protocol/mod.rs)
\* ===========================================================================

Entry(n, v, fname, h) ==
    [mod_name |-> n, mod_version |-> v, file_name |-> fname, file_hash |-> h]

Manifest(iid, mc, loader, mods) ==
    [instance_id |-> iid, minecraft_version |-> mc, loader_type |-> loader,
     mods |-> mods]

\* Manifests a remote peer sends.
RemoteManifests ==
    { Manifest("remote", "1.20", None, <<Entry("a", "1", "a-1.jar", None)>>),
      Manifest("remote", "1.21", "fabric", <<Entry("a", "2", "a-2.jar", None),
                                          Entry("b", "1", "b-1.jar", "h1")>>) }

\* create_pending_sync: compute the diff and insert the session as awaiting.
create_pending_sync(ps, sid, remote_peer_id, local, remote) ==
    LET diff == compute_diff(local, remote)
    IN [ps |-> ps @@ (sid :> [session_id |-> sid,
                              remote_peer_id |-> remote_peer_id,
                              local_manifest |-> local,
                              remote_manifest |-> remote,
                              diff |-> diff,
                              status |-> "awaiting"]),
        diff |-> diff]

\* get_pending_sync: a clone of the entry, or None.
get_pending_sync(ps, sid) == IF sid \in DOMAIN ps THEN <<ps[sid]>> ELSE <<>>

\* confirm_sync: the session must exist and be awaiting confirmation.
confirm_sync_unchecked(ps, sid) ==
    IF sid \notin DOMAIN ps
    THEN [ok |-> FALSE, err |-> "NotFound", ps |-> ps, diff |-> None]
    ELSE [ok |-> TRUE, err |-> None,
          ps |-> [ps EXCEPT ![sid].status = "syncing"], diff |-> ps[sid].diff]

confirm_sync(ps, sid) ==
    IF sid \notin DOMAIN ps
    THEN [ok |-> FALSE, err |-> "NotFound", ps |-> ps, diff |-> None]
    ELSE IF ps[sid].status # "awaiting"
    THEN [ok |-> FALSE, err |-> "NotAwaiting", ps |-> ps, diff |-> None]
    ELSE [ok |-> TRUE, err |-> None,
          ps |-> [ps EXCEPT ![sid].status = "syncing"], diff |-> ps[sid].diff]

\* reject_sync: the session must exist; its status becomes rejected.
reject_sync(ps, sid) ==
    IF sid \notin DOMAIN ps
    THEN [ok |-> FALSE, err |-> "NotFound", ps |-> ps]
    ELSE [ok |-> TRUE, err |-> None, ps |-> [ps EXCEPT ![sid].status = "rejected"]]

\* complete_sync: the session must exist; its status becomes completed.
complete_sync(ps, sid) ==
    IF sid \notin DOMAIN ps
    THEN [ok |-> FALSE, err |-> "NotFound", ps |-> ps]
    ELSE [ok |-> TRUE, err |-> None, ps |-> [ps EXCEPT ![sid].status = "completed"]]

\* A cleanup that drops every session.
cleanup_finished_all(ps) ==
    [ps |-> [sid \in {} |-> ps[sid]], count |-> Cardinality(DOMAIN ps)]

\* cleanup_finished: retain the sessions that are neither completed nor
\* rejected; return how many were dropped.
cleanup_finished(ps) ==
    LET keep == {sid \in DOMAIN ps : ps[sid].status \notin {"completed", "rejected"}}
    IN [ps |-> [sid \in keep |-> ps[sid]],
        count |-> Cardinality(DOMAIN ps) - Cardinality(keep)]

\* The mod files left when the directory of an instance is removed.
FilesOutside(files, id) == {f \in files : f[1] # id}

\* What a command step returned: ok/err, and the Ok value in ret.
Last(op, sid, ok, err, ret) ==
    [op |-> op, sid |-> sid, ok |-> ok, err |-> err, ret |-> ret]

Appliers == 1..NumAppliers

ApplierIdle == [pc |-> "idle", sid |-> 0, pending |-> None, diff |-> None,
                status_at_confirm |-> None, result |-> None]

\* ---- commands (commands/instance.rs, commands/sync_protocol.rs) ----------

\* create_instance command: build an instance with a fresh id, create its
\* directory and insert the row.
CreateInstance(mc, loader) ==
    /\ next_uuid < MaxInstances
    /\ LET id == next_uuid + 1
           r == create_instance(db_instances,
                   [id |-> id, is_active |-> TRUE, minecraft_version |-> mc,
                    loader_type |-> loader])
       IN /\ db_instances' = r.insts
          /\ sync_last' = Last("create_instance", id, r.ok, None, None)
          /\ fs_dirs' = fs_dirs \cup {id}
          /\ UNCHANGED mod_files
    /\ next_uuid' = next_uuid + 1
    /\ UNCHANGED <<db_mods, pending_syncs, next_session, ap, dvars,
                   install_in_progress, iprogress, inv, kvars>>

\* delete_instance command: remove the directory of an active instance if
\* it exists (a failure returns the error), then soft-delete the row.
DeleteInstance(id, rm_ok) ==
    /\ LET found == get_instance(db_instances, id)
       IN IF found # <<>> /\ id \in fs_dirs /\ ~rm_ok
          THEN /\ sync_last' = Last("delete_instance", id, FALSE, "RemoveDir", None)
               /\ UNCHANGED <<db_instances, db_mods, fs_dirs, mod_files>>
          ELSE LET r == delete_instance(db_instances, db_mods, id)
               IN /\ db_instances' = r.insts
                  /\ db_mods' = r.mods
                  /\ fs_dirs' = IF found # <<>> THEN fs_dirs \ {id} ELSE fs_dirs
                  /\ mod_files' = IF found # <<>> THEN FilesOutside(mod_files, id)
                                                   ELSE mod_files
                  /\ sync_last' = Last("delete_instance", id, TRUE, None, None)
    /\ UNCHANGED <<next_uuid, pending_syncs, next_session, ap, dvars,
                   install_in_progress, iprogress, inv, kvars>>

\* preview_sync: build the local manifest from the catalog and create the
\* pending sync.
PreviewSync(iid, remote) ==
    /\ next_session < MaxSessions
    /\ LET found == get_instance(db_instances, iid)
           instance == found[1]
       IN IF found = <<>>
          THEN /\ sync_last' = Last("preview_sync", 0, FALSE, "InstanceNotFound", None)
               /\ UNCHANGED <<pending_syncs, next_session>>
          ELSE LET mods == list_instance_mods(db_mods, iid)
                   local == Manifest(instance.id, instance.minecraft_version,
                               instance.loader_type,
                               [k \in DOMAIN mods |->
                                   Entry(mods[k].name, mods[k].version,
                                         mods[k].file_name, mods[k].file_hash)])
                   sid == next_session + 1
                   r == create_pending_sync(pending_syncs, sid, "peer", local, remote)
               IN /\ pending_syncs' = r.ps
                  /\ next_session' = sid
                  /\ sync_last' = Last("preview_sync", sid, TRUE, None, r.diff)
    /\ UNCHANGED <<cvars, ap, dvars, ivars, kvars>>

ConfirmSync(sid) ==
    /\ LET r == confirm_sync(pending_syncs, sid)
       IN /\ pending_syncs' = r.ps
          /\ sync_last' = Last("confirm_sync", sid, r.ok, r.err, r.diff)
    /\ UNCHANGED <<cvars, next_session, ap, dvars, ivars, kvars>>

RejectSync(sid) ==
    /\ LET r == reject_sync(pending_syncs, sid)
       IN /\ pending_syncs' = r.ps
          /\ sync_last' = Last("reject_sync", sid, r.ok, r.err, None)
    /\ UNCHANGED <<cvars, next_session, ap, dvars, ivars, kvars>>

CompleteSync(sid) ==
    /\ LET r == complete_sync(pending_syncs, sid)
       IN /\ pending_syncs' = r.ps
          /\ sync_last' = Last("complete_sync", sid, r.ok, r.err, None)
    /\ UNCHANGED <<cvars, next_session, ap, dvars, ivars, kvars>>

CleanupFinished ==
    /\ LET r == cleanup_finished(pending_syncs)
       IN /\ pending_syncs' = r.ps
          /\ sync_last' = Last("cleanup_finished", 0, TRUE, None, r.count)
    /\ UNCHANGED <<cvars, next_session, ap, dvars, ivars, kvars>>

\* apply_sync, line 114-116: load the pending sync.
ApplyGet(a, sid) ==
    /\ ap[a].pc = "idle"
    /\ LET p == get_pending_sync(pending_syncs, sid)
       IN IF p = <<>>
          THEN /\ ap' = [ap EXCEPT ![a] = ApplierIdle]
               /\ sync_last' = Last("apply_sync", sid, FALSE, "NotFound", None)
          ELSE /\ ap' = [ap EXCEPT ![a] =
                           [ApplierIdle EXCEPT !.pc = "got", !.sid = sid,
                                               !.pending = p[1]]]
               /\ sync_last' = Last("apply_get", sid, TRUE, None, None)
    /\ UNCHANGED <<cvars, pending_syncs, next_session, dvars, ivars, kvars>>

\* apply_sync, line 118: confirm; an error ends the call.
ApplyConfirm(a) ==
    /\ ap[a].pc = "got"
    /\ LET sid == ap[a].sid
           r == confirm_sync(pending_syncs, sid)
           seen == IF sid \in DOMAIN pending_syncs
                   THEN pending_syncs[sid].status ELSE "missing"
       IN /\ pending_syncs' = r.ps
          /\ IF r.ok
             THEN /\ ap' = [ap EXCEPT ![a].pc = "confirmed", ![a].diff = r.diff,
                                      ![a].status_at_confirm = seen]
                  /\ sync_last' = Last("apply_confirm", sid, TRUE, None, None)
             ELSE /\ ap' = [ap EXCEPT ![a] = ApplierIdle]
                  /\ sync_last' = Last("apply_sync", sid, FALSE, r.err, None)
    /\ UNCHANGED <<cvars, next_session, dvars, ivars, kvars>>

\* apply_sync, line 120: apply the diff to the catalog of the instance of
\* the local manifest.
ApplyDiff(a, f) ==
    /\ ap[a].pc = "confirmed"
    /\ LET r == apply_diff(db_mods, db_instances,
                           ap[a].pending.local_manifest.instance_id,
                           ap[a].diff, f)
       IN /\ db_mods' = r.mods
          /\ ap' = [ap EXCEPT ![a].pc = "applied", ![a].result = r.res]
    /\ sync_last' = Last("apply_diff", ap[a].sid, TRUE, None, None)
    /\ UNCHANGED <<db_instances, next_uuid, pending_syncs, next_session, dvars, ivars, kvars>>

\* apply_sync, lines 122-124: mark the session completed and return.
ApplyComplete(a) ==
    /\ ap[a].pc = "applied"
    /\ LET sid == ap[a].sid
           r == complete_sync(pending_syncs, sid)
       IN /\ pending_syncs' = r.ps
          /\ ap' = [ap EXCEPT ![a] = ApplierIdle]
          /\ sync_last' = Last("apply_sync", sid, r.ok, r.err,
                               IF r.ok THEN ap[a].result ELSE None)
    /\ UNCHANGED <<cvars, next_session, dvars, ivars, kvars>>

\* ===========================================================================
\* InstallService (services/install.rs)
\* ===========================================================================

Installers == 1..NumInstallers

\* InstallStage values.
Stage(type) == [type |-> type, message |-> None, total |-> 0]
DownloadingMods(total) == [type |-> "DownloadingMods", message |-> None, total |-> total]
Failed(message) == [type |-> "Failed", message |-> message, total |-> 0]

\* InstallProgress::new and InstallProgress::idle.
InstallProgressNew(stage, percent) ==
    [stage |-> stage, overall_percent |-> percent, instance_id |-> None,
     modpack_name |-> None, modpack_icon_url |-> None]

InstallProgressIdle == InstallProgressNew(Stage("Completed"), 100)

\* set_progress_fresh: a new snapshot without metadata.
set_progress_fresh(p, stage, percent) == InstallProgressNew(stage, percent)

\* A set_progress that keeps nothing of the snapshot before it.
set_progress_forgetful(p, stage, percent) == InstallProgressNew(stage, percent)

\* set_progress: a new snapshot that keeps instance_id and the modpack fields.
set_progress(p, stage, percent) ==
    [InstallProgressNew(stage, percent) EXCEPT
        !.instance_id = p.instance_id,
        !.modpack_name = p.modpack_name,
        !.modpack_icon_url = p.modpack_icon_url]

\* A plain store(true) in place of the compare_exchange.
begin_install_store(flag) == [ok |-> TRUE, flag |-> TRUE]

\* begin_install: compare_exchange(false, true) on the flag.
begin_install(flag) ==
    IF flag = FALSE THEN [ok |-> TRUE, flag |-> TRUE]
                    ELSE [ok |-> FALSE, flag |-> flag]

\* A guard whose drop leaves the flag as it is.
drop_guard_forget(flag, held) == flag

\* InstallGuard::drop: the invocation that owns a guard clears the flag.
drop_guard(flag, held) == IF held THEN FALSE ELSE flag

\* download_all as seen by a caller that awaits it: the snapshot it leaves
\* for urls of which the ones in failed exhausted their attempts, and the
\* value it returns (download.rs line 138).
download_all_snapshot(urls, failed) ==
    [total_files |-> Len(urls),
     completed_files |-> Cardinality({k \in DOMAIN urls : urls[k] \notin failed}),
     total_bytes |-> 2 * Len(urls),
     downloaded_bytes |-> 2 * Cardinality({k \in DOMAIN urls : urls[k] \notin failed}),
     failed_files |-> SelectSeq(urls, LAMBDA u : u \in failed),
     state |-> IF \A k \in DOMAIN urls : urls[k] \notin failed
               THEN "completed" ELSE "failed"]

download_all_returns(snapshot) == "Ok"

\* Parsed packs (ParsedPackInfo with the mods its manifest resolves to).
NoPack == [loader |-> "vanilla", format |-> "none", mods |-> <<>>]

Packs ==
    { [loader |-> "vanilla", format |-> "modrinth",   mods |-> <<>>],
      [loader |-> "fabric",  format |-> "curseforge", mods |-> <<"m.jar">>] }

InvIdle ==
    [pc |-> "idle", kind |-> None, guard |-> FALSE, instance_id |-> 0,
     temp |-> FALSE, zip |-> FALSE, pack |-> NoPack, file |-> None,
     first_failure |-> None, ok |-> TRUE, err |-> None]

\* The invocation returns: its locals are dropped, the guard with them.
Returned(c, ok, err) ==
    /\ inv' = [inv EXCEPT ![c] =
                 [InvIdle EXCEPT !.pc = "returned", !.kind = inv[c].kind,
                                 !.instance_id = inv[c].instance_id,
                                 !.first_failure = inv[c].first_failure,
                                 !.ok = ok, !.err = err]]
    /\ install_in_progress' = drop_guard(install_in_progress, inv[c].guard)

\* Note the first point at which something failed in this invocation.
Fail(r, point) ==
    [r EXCEPT !.first_failure = IF @ = None THEN point ELSE @]

\* ---- install_modpack -------------------------------------------------------

\* Lines 163-171: take the flag, then reset the progress with the metadata.
InstallModpackBegin(c, name, icon) ==
    /\ inv[c].pc \in {"idle", "returned"}
    /\ LET b == begin_install(install_in_progress)
       IN IF ~b.ok
          THEN /\ inv' = [inv EXCEPT ![c] =
                            [InvIdle EXCEPT !.pc = "returned", !.kind = "modpack",
                                            !.ok = FALSE,
                                            !.err = "AlreadyInProgress"]]
               /\ UNCHANGED <<install_in_progress, iprogress>>
          ELSE /\ next_uuid < MaxInstances
               /\ install_in_progress' = b.flag
               /\ inv' = [inv EXCEPT ![c] =
                            [InvIdle EXCEPT !.pc = "mp_tempdir", !.kind = "modpack",
                                            !.guard = TRUE]]
               /\ iprogress' =
                    [InstallProgressNew(Stage("FetchingInfo"), 0) EXCEPT
                        !.modpack_name = name, !.modpack_icon_url = icon]
    /\ UNCHANGED <<fs_dirs, mod_files, cvars, svars, dvars, kvars>>

\* Lines 173-179: create the temp directory (an error returns at once),
\* then draw the instance id.
InstallModpackTempDir(c, ok) ==
    /\ inv[c].pc = "mp_tempdir"
    /\ IF ok
       THEN /\ inv' = [inv EXCEPT ![c].pc = "mp_fetch", ![c].temp = TRUE,
                                  ![c].instance_id = next_uuid + 1]
            /\ next_uuid' = next_uuid + 1
            /\ UNCHANGED install_in_progress
       ELSE /\ Returned(c, FALSE, "TempDir")
            /\ UNCHANGED next_uuid
    /\ UNCHANGED <<iprogress, fs_dirs, mod_files, db_instances, db_mods, svars, dvars, kvars>>

\* A step of the inner async block: on error the block ends with Err(e).
StepTo(c, ok, next, point, r) ==
    inv' = [inv EXCEPT ![c] =
              IF ok THEN [r EXCEPT !.pc = next]
                    ELSE [Fail(r, point) EXCEPT !.pc = "mp_rollback", !.err = point]]

\* Step 1, lines 183-196: fetch the versions and pick the pack file.
InstallModpackFetch(c, ok) ==
    /\ inv[c].pc = "mp_fetch"
    /\ iprogress' = set_progress(iprogress, Stage("FetchingInfo"), 2)
    /\ StepTo(c, ok, "mp_dlpack", "version_lookup", inv[c])
    /\ UNCHANGED <<install_in_progress, fs_dirs, mod_files, cvars, svars, dvars, kvars>>

\* Step 2, lines 199-207: download the pack archive into the temp directory.
InstallModpackDownloadPack(c, failed) ==
    /\ inv[c].pc = "mp_dlpack"
    /\ iprogress' = set_progress(iprogress, Stage("DownloadingPack"), 5)
    /\ LET snap == download_all_snapshot(<<"pack.zip">>, failed)
           r == IF failed = {} THEN [inv[c] EXCEPT !.zip = TRUE]
                               ELSE Fail(inv[c], "pack_download")
       IN /\ dprogress' = snap
          /\ StepTo(c, download_all_returns(snap) = "Ok", "mp_extract",
                    "pack_download", r)
    /\ UNCHANGED <<install_in_progress, fs_dirs, mod_files, cvars, svars, d_phase, d_tasks,
                   d_st, d_requests, d_calls, d_ret, disk, disk_at_call, kvars>>

\* Step 3, lines 210-212: extract the archive; a missing archive fails to
\* open.
InstallModpackExtract(c, ok) ==
    /\ inv[c].pc = "mp_extract"
    /\ iprogress' = set_progress(iprogress, Stage("ExtractingPack"), 12)
    /\ StepTo(c, ok /\ inv[c].zip, "mp_parse", "extraction", inv[c])
    /\ UNCHANGED <<install_in_progress, fs_dirs, mod_files, cvars, svars, dvars, kvars>>

\* Step 4, line 215: parse the manifest of the pack.
InstallModpackParse(c, ok, pack) ==
    /\ inv[c].pc = "mp_parse"
    /\ StepTo(c, ok, "mp_create", "manifest_parsing", [inv[c] EXCEPT !.pack = pack])
    /\ UNCHANGED <<install_in_progress, iprogress, fs_dirs, mod_files, cvars, svars, dvars, kvars>>

\* Line 216: publish CreatingInstance.
InstallModpackCreating(c) ==
    /\ inv[c].pc = "mp_create"
    /\ iprogress' = set_progress(iprogress, Stage("CreatingInstance"), 18)
    /\ inv' = [inv EXCEPT ![c].pc = "mp_createdir"]
    /\ UNCHANGED <<install_in_progress, fs_dirs, mod_files, cvars, svars, dvars, kvars>>

\* Lines 218-222: store the instance id in the snapshot (a second critical
\* section), create {instance_path}/mods.
InstallModpackCreateDir(c, ok) ==
    /\ inv[c].pc = "mp_createdir"
    /\ iprogress' = [iprogress EXCEPT !.instance_id = inv[c].instance_id]
    /\ fs_dirs' = IF ok THEN fs_dirs \cup {inv[c].instance_id} ELSE fs_dirs
    /\ UNCHANGED mod_files
    /\ StepTo(c, ok, "mp_mc", "instance_dir", inv[c])
    /\ UNCHANGED <<install_in_progress, cvars, svars, dvars, kvars>>

\* Step 5, lines 243-247: fetch the version data, download Minecraft.
InstallModpackMinecraft(c, ok, failed) ==
    /\ inv[c].pc = "mp_mc"
    /\ iprogress' = set_progress(iprogress, Stage("DownloadingMinecraft"), 22)
    /\ IF ok
       THEN LET snap == download_all_snapshot(<<"client.jar">>, failed)
                r == IF failed = {} THEN inv[c]
                                    ELSE Fail(inv[c], "minecraft_download")
            IN /\ dprogress' = snap
               /\ StepTo(c, download_all_returns(snap) = "Ok", "mp_loader",
                         "minecraft_download", r)
       ELSE /\ StepTo(c, FALSE, "mp_loader", "minecraft_download", inv[c])
            /\ UNCHANGED dprogress
    /\ UNCHANGED <<install_in_progress, fs_dirs, mod_files, cvars, svars, d_phase, d_tasks,
                   d_st, d_requests, d_calls, d_ret, disk, disk_at_call, kvars>>

\* Step 6, lines 250-261: install the loader and download its libraries,
\* unless the pack is vanilla.
InstallModpackLoader(c, ok, failed) ==
    /\ inv[c].pc = "mp_loader"
    /\ IF inv[c].pack.loader = "vanilla"
       THEN /\ StepTo(c, TRUE, "mp_resolve", "loader_install", inv[c])
            /\ UNCHANGED <<iprogress, dprogress>>
       ELSE /\ iprogress' = set_progress(iprogress, Stage("InstallingLoader"), 35)
            /\ IF ok
               THEN LET snap == download_all_snapshot(<<"loader.jar">>, failed)
                        r == IF failed = {} THEN inv[c]
                                            ELSE Fail(inv[c], "loader_install")
                    IN /\ dprogress' = snap
                       /\ StepTo(c, download_all_returns(snap) = "Ok",
                                 "mp_resolve", "loader_install", r)
               ELSE /\ StepTo(c, FALSE, "mp_resolve", "loader_install", inv[c])
                    /\ UNCHANGED dprogress
    /\ UNCHANGED <<install_in_progress, fs_dirs, mod_files, cvars, svars, d_phase, d_tasks,
                   d_st, d_requests, d_calls, d_ret, disk, disk_at_call, kvars>>

\* Step 7, lines 264-268: resolve the mods; only the CurseForge batch
\* lookup can fail.
InstallModpackResolve(c, ok) ==
    /\ inv[c].pc = "mp_resolve"
    /\ iprogress' = set_progress(iprogress, Stage("ResolvingMods"), 42)
    /\ StepTo(c, ok \/ inv[c].pack.format # "curseforge", "mp_dlmods",
              "mod_resolution", inv[c])
    /\ UNCHANGED <<install_in_progress, fs_dirs, mod_files, cvars, svars, dvars, kvars>>

\* Step 8, lines 271-301: download every mod file.
InstallModpackDownloadMods(c, failed) ==
    /\ inv[c].pc = "mp_dlmods"
    /\ failed \subseteq {inv[c].pack.mods[k] : k \in DOMAIN inv[c].pack.mods}
    /\ iprogress' = set_progress(iprogress,
                                 DownloadingMods(Len(inv[c].pack.mods)), 50)
    /\ LET snap == download_all_snapshot(inv[c].pack.mods, failed)
           r == IF failed = {} THEN inv[c] ELSE Fail(inv[c], "mod_download")
       IN /\ dprogress' = snap
          /\ StepTo(c, download_all_returns(snap) = "Ok", "mp_overrides",
                    "mod_download", r)
    /\ mod_files' = mod_files \cup
          {<<inv[c].instance_id, inv[c].pack.mods[k]>> :
              k \in {j \in DOMAIN inv[c].pack.mods : inv[c].pack.mods[j] \notin failed}}
    /\ UNCHANGED <<install_in_progress, fs_dirs, cvars, svars, d_phase, d_tasks,
                   d_st, d_requests, d_calls, d_ret, disk, disk_at_call, kvars>>

\* Step 9, lines 304-316: copy overrides and client-overrides.
InstallModpackOverrides(c, ok) ==
    /\ inv[c].pc = "mp_overrides"
    /\ iprogress' = set_progress(iprogress, Stage("CopyingOverrides"), 85)
    /\ inv' = [inv EXCEPT ![c] =
                 IF ok THEN [@ EXCEPT !.pc = "mp_register"]
                       ELSE [Fail(@, "overrides_copy") EXCEPT
                                !.pc = "mp_rollback", !.err = "overrides_copy"]]
    /\ UNCHANGED <<install_in_progress, fs_dirs, mod_files, cvars, svars, dvars, kvars>>

\* Lines 320-335: the block returned Err: remove the temp directory and the
\* instance directory, publish Failed, return the error.
InstallModpackRollback(c) ==
    /\ inv[c].pc = "mp_rollback"
    /\ fs_dirs' = fs_dirs \ {inv[c].instance_id}
    /\ mod_files' = FilesOutside(mod_files, inv[c].instance_id)
    /\ iprogress' = set_progress(iprogress, Failed(inv[c].err), 100)
    /\ Returned(c, FALSE, inv[c].err)
    /\ UNCHANGED <<cvars, svars, dvars, kvars>>

\* The mod rows written by the loop of lines 353-371 for the mods whose
\* insert succeeds.
RECURSIVE RegisterMods(_, _, _, _, _)
RegisterMods(mods, insts, iid, files, ok_files) ==
    IF files = <<>> THEN mods
    ELSE LET r == add_mod_to_instance(mods, insts,
                     ModRow(iid, Head(files), "", Head(files), None))
         IN RegisterMods(IF r.ok /\ Head(files) \in ok_files THEN r.mods ELSE mods,
                         insts, iid, Tail(files), ok_files)

\* A step past line 338 that publishes nothing.
InstallModpackRegisteringSilent(c) ==
    /\ inv[c].pc = "mp_register"
    /\ inv' = [inv EXCEPT ![c].pc = "mp_persist"]
    /\ UNCHANGED <<install_in_progress, iprogress, fs_dirs, mod_files, cvars, svars, dvars,
                   kvars>>

\* Line 338: the block returned Ok: publish RegisteringMods.
InstallModpackRegistering(c) ==
    /\ inv[c].pc = "mp_register"
    /\ iprogress' = set_progress(iprogress, Stage("RegisteringMods"), 92)
    /\ inv' = [inv EXCEPT ![c].pc = "mp_persist"]
    /\ UNCHANGED <<install_in_progress, fs_dirs, mod_files, cvars, svars, dvars, kvars>>

\* Lines 339-351: insert the instance row; an error removes the temp
\* directory and the instance directory, publishes Failed and returns.
InstallModpackCreateInstance(c, ok) ==
    /\ inv[c].pc = "mp_persist"
    /\ LET id == inv[c].instance_id
           r == create_instance(db_instances,
                   [id |-> id, is_active |-> TRUE, minecraft_version |-> "1.20",
                    loader_type |-> IF inv[c].pack.loader = "vanilla"
                                    THEN None ELSE inv[c].pack.loader])
       IN IF ok /\ r.ok
          THEN /\ db_instances' = r.insts
               /\ inv' = [inv EXCEPT ![c].pc = "mp_mods"]
               /\ UNCHANGED <<install_in_progress, iprogress, fs_dirs, mod_files>>
          ELSE /\ fs_dirs' = fs_dirs \ {id}
               /\ mod_files' = FilesOutside(mod_files, id)
               /\ iprogress' = set_progress(iprogress, Failed("catalog"), 100)
               /\ Returned(c, FALSE, "catalog")
               /\ UNCHANGED db_instances
    /\ UNCHANGED <<db_mods, next_uuid, svars, dvars, kvars>>

\* Lines 353-376: insert the mod rows (errors are logged), remove the temp
\* directory, publish Completed.
InstallModpackFinish(c, ok_files) ==
    /\ inv[c].pc = "mp_mods"
    /\ ok_files \subseteq {inv[c].pack.mods[k] : k \in DOMAIN inv[c].pack.mods}
    /\ db_mods' = RegisterMods(db_mods, db_instances, inv[c].instance_id,
                               inv[c].pack.mods, ok_files)
    /\ iprogress' = set_progress(iprogress, Stage("Completed"), 100)
    /\ Returned(c, TRUE, None)
    /\ UNCHANGED <<fs_dirs, mod_files, db_instances, next_uuid, svars, dvars, kvars>>

\* ---- remove_mod ------------------------------------------------------------

\* std::fs::remove_file on {instance_path}/mods/{file_name}: Ok when the
\* file was there, NotFound when it was not, another error on a fault.
remove_file(files, path, fault) ==
    IF fault THEN [res |-> "Other", files |-> files]
    ELSE IF path \in files THEN [res |-> "Ok", files |-> files \ {path}]
    ELSE [res |-> "NotFound", files |-> files]

\* A remove_mod that gives up on every error of remove_file.
remove_mod_strict(mods, insts, files, mod_id, active_only, fault, db_ok) ==
    LET mod_info == get_mod_by_id(mods, mod_id, active_only)
        instance == IF mod_info = <<>> THEN <<>>
                    ELSE get_instance(insts, mod_info[1].instance_id)
    IN IF mod_info = <<>>
       THEN [ok |-> FALSE, err |-> "ModNotFound", io |-> None,
             mods |-> mods, files |-> files]
       ELSE IF instance = <<>>
       THEN [ok |-> FALSE, err |-> "InstanceNotFound", io |-> None,
             mods |-> mods, files |-> files]
       ELSE LET r == remove_file(files,
                        <<mod_info[1].instance_id, mod_info[1].file_name>>, fault)
            IN IF r.res # "Ok"
               THEN [ok |-> FALSE, err |-> "RemoveFile", io |-> r.res,
                     mods |-> mods, files |-> files]
               ELSE IF ~db_ok
               THEN [ok |-> FALSE, err |-> "catalog", io |-> r.res,
                     mods |-> mods, files |-> r.files]
               ELSE [ok |-> TRUE, err |-> None, io |-> r.res,
                     mods |-> remove_mod_from_instance(mods, mod_id),
                     files |-> r.files]

\* remove_mod, lines 123-146: look the record and its instance up, remove
\* the file (NotFound is ignored, another error is returned), then
\* deactivate the record.
remove_mod(mods, insts, files, mod_id, active_only, fault, db_ok) ==
    LET mod_info == get_mod_by_id(mods, mod_id, active_only)
        instance == IF mod_info = <<>> THEN <<>>
                    ELSE get_instance(insts, mod_info[1].instance_id)
    IN IF mod_info = <<>>
       THEN [ok |-> FALSE, err |-> "ModNotFound", io |-> None,
             mods |-> mods, files |-> files]
       ELSE IF instance = <<>>
       THEN [ok |-> FALSE, err |-> "InstanceNotFound", io |-> None,
             mods |-> mods, files |-> files]
       ELSE LET r == remove_file(files,
                        <<mod_info[1].instance_id, mod_info[1].file_name>>, fault)
            IN IF r.res = "Other"
               THEN [ok |-> FALSE, err |-> "RemoveFile", io |-> r.res,
                     mods |-> mods, files |-> files]
               ELSE IF ~db_ok
               THEN [ok |-> FALSE, err |-> "catalog", io |-> r.res,
                     mods |-> mods, files |-> r.files]
               ELSE [ok |-> TRUE, err |-> None, io |-> r.res,
                     mods |-> remove_mod_from_instance(mods, mod_id),
                     files |-> r.files]

\* The remove_mod command on a mod id.
RemoveMod(mod_id, active_only, fault, db_ok) ==
    /\ LET r == remove_mod(db_mods, db_instances, mod_files, mod_id,
                           active_only, fault, db_ok)
       IN /\ db_mods' = r.mods
          /\ mod_files' = r.files
          /\ sync_last' = Last("remove_mod", mod_id, r.ok, r.err, r.io)
    /\ UNCHANGED <<db_instances, next_uuid, pending_syncs, next_session, ap,
                   dvars, install_in_progress, iprogress, inv, fs_dirs, kvars>>

\* ---- install_mod -----------------------------------------------------------

\* Lines 57-64: take the flag, look the instance up, reset the progress.
InstallModBegin(c, iid) ==
    /\ inv[c].pc \in {"idle", "returned"}
    /\ LET b == begin_install(install_in_progress)
           found == get_instance(db_instances, iid)
       IN IF ~b.ok
          THEN /\ inv' = [inv EXCEPT ![c] =
                            [InvIdle EXCEPT !.pc = "returned", !.kind = "mod",
                                            !.ok = FALSE,
                                            !.err = "AlreadyInProgress"]]
               /\ UNCHANGED <<install_in_progress, iprogress>>
          ELSE IF found = <<>>
          THEN /\ inv' = [inv EXCEPT ![c] =
                            [InvIdle EXCEPT !.pc = "returned", !.kind = "mod",
                                            !.ok = FALSE,
                                            !.err = "InstanceNotFound"]]
               /\ install_in_progress' = drop_guard(b.flag, TRUE)
               /\ UNCHANGED iprogress
          ELSE /\ Len(db_mods) < MaxMods
               /\ install_in_progress' = b.flag
               /\ inv' = [inv EXCEPT ![c] =
                            [InvIdle EXCEPT !.pc = "im_fetch", !.kind = "mod",
                                            !.guard = TRUE, !.instance_id = iid]]
               /\ iprogress' = set_progress_fresh(iprogress, Stage("FetchingInfo"), 10)
    /\ UNCHANGED <<fs_dirs, mod_files, cvars, svars, dvars, kvars>>

\* Lines 67-83: fetch the versions, pick the version and its file.
InstallModFetch(c, ok, file) ==
    /\ inv[c].pc = "im_fetch"
    /\ IF ok
       THEN /\ inv' = [inv EXCEPT ![c].pc = "im_download", ![c].file = file]
            /\ iprogress' = set_progress(iprogress, DownloadingMods(1), 40)
            /\ UNCHANGED install_in_progress
       ELSE /\ Returned(c, FALSE, "version_lookup")
            /\ UNCHANGED iprogress
    /\ UNCHANGED <<fs_dirs, mod_files, cvars, svars, dvars, kvars>>

\* Lines 86-98: download the file into {instance_path}/mods.
InstallModDownload(c, failed) ==
    /\ inv[c].pc = "im_download"
    /\ failed \subseteq {inv[c].file}
    /\ LET snap == download_all_snapshot(<<inv[c].file>>, failed)
           r == IF failed = {} THEN inv[c] ELSE Fail(inv[c], "mod_download")
       IN /\ dprogress' = snap
          /\ IF download_all_returns(snap) = "Ok"
             THEN /\ inv' = [inv EXCEPT ![c] = [r EXCEPT !.pc = "im_register"]]
                  /\ iprogress' = set_progress(iprogress, Stage("RegisteringMods"), 80)
                  /\ UNCHANGED install_in_progress
             ELSE /\ Returned(c, FALSE, "mod_download")
                  /\ UNCHANGED iprogress
    /\ mod_files' = IF failed = {}
                    THEN mod_files \cup {<<inv[c].instance_id, inv[c].file>>}
                    ELSE mod_files
    /\ UNCHANGED <<fs_dirs, cvars, svars, d_phase, d_tasks, d_st, d_requests,
                   d_calls, d_ret, disk, disk_at_call, kvars>>

\* Lines 100-119: insert the ModInfo row, publish Completed.
InstallModRegister(c, ok) ==
    /\ inv[c].pc = "im_register"
    /\ LET r == add_mod_to_instance(db_mods, db_instances,
                   ModRow(inv[c].instance_id, inv[c].file, "1", inv[c].file, None))
       IN IF ok /\ r.ok
          THEN /\ db_mods' = r.mods
               /\ iprogress' = set_progress(iprogress, Stage("Completed"), 100)
               /\ Returned(c, TRUE, None)
          ELSE /\ Returned(c, FALSE, "catalog")
               /\ UNCHANGED <<db_mods, iprogress>>
    /\ UNCHANGED <<fs_dirs, mod_files, db_instances, next_uuid, svars, dvars, kvars>>

\* ===========================================================================
\* Callers of download_all on the shared DownloadService
\* (commands/minecraft.rs, services/install.rs, services/download.rs)
\* ===========================================================================

Callers == 1..NumCallers

\* A caller: where it is, which entry point it came through, the number of
\* tasks it handed to download_all and the number of its workers that are
\* still running.
CallerIdle == [pc |-> "idle", kind |-> None, n |-> 0, left |-> 0, ret |-> None]

\* No evaluation yet.
FxIdle == [op |-> "none"]

\* is_downloading: state == Downloading.
is_downloading(prog) == prog.state = "downloading"

\* Callers whose download_all call has reset the snapshot and not returned.
ActiveCalls == {k \in Callers : callers[k].pc \in {"filtering", "running"}}

\* download_version, lines 18-25: refuse when a download is running, else
\* go on to fetch the version detail.
DownloadVersionCheck(k) ==
    /\ callers[k].pc = "idle"
    /\ callers' = [callers EXCEPT ![k] =
                     IF is_downloading(dprogress)
                     THEN [CallerIdle EXCEPT !.kind = "download_version",
                                             !.ret = "AlreadyDownloading"]
                     ELSE [CallerIdle EXCEPT !.pc = "checked",
                                             !.kind = "download_version"]]
    /\ UNCHANGED <<fx, pvars, java, dvars, cvars, svars, ivars>>

\* download_version, lines 24-36: resolve the tasks (an error returns),
\* spawn download_all and return.
DownloadVersionSpawn(k, ok, n) ==
    /\ callers[k].pc = "checked"
    /\ callers' = [callers EXCEPT ![k] =
                     IF ok THEN [@ EXCEPT !.pc = "entered", !.n = n, !.ret = "Ok"]
                           ELSE [CallerIdle EXCEPT !.kind = "download_version",
                                                   !.ret = "Err"]]
    /\ UNCHANGED <<fx, pvars, java, dvars, cvars, svars, ivars>>

\* install_mod / install_modpack up to a download_all call: take the
\* install flag, then call download_all without looking at the state.
InstallCallerBegin(k, n) ==
    /\ callers[k].pc = "idle"
    /\ LET b == begin_install(install_in_progress)
       IN /\ install_in_progress' = b.flag
          /\ callers' = [callers EXCEPT ![k] =
                           IF b.ok
                           THEN [CallerIdle EXCEPT !.pc = "entered",
                                                   !.kind = "install", !.n = n]
                           ELSE [CallerIdle EXCEPT !.kind = "install",
                                                   !.ret = "AlreadyInProgress"]]
    /\ UNCHANGED <<fx, pvars, java, dvars, cvars, svars, iprogress, inv, fs_dirs, mod_files>>

\* download_all, lines 76-91: replace the shared snapshot.
CallReset(k) ==
    /\ callers[k].pc = "entered"
    /\ dprogress' = [total_files |-> callers[k].n,
                     completed_files |-> 0,
                     total_bytes |-> 2 * callers[k].n,
                     downloaded_bytes |-> 0,
                     failed_files |-> <<>>,
                     state |-> "downloading"]
    /\ callers' = [callers EXCEPT ![k].pc = "filtering"]
    /\ UNCHANGED <<fx, pvars, java, d_phase, d_tasks, d_st, d_requests, d_calls, d_ret,
                   disk, disk_at_call, cvars, svars, ivars>>

\* download_all, lines 93-115: filter the cached tasks, store the number
\* skipped when it is positive, spawn a worker per pending task.
CallFilter(k, skipped) ==
    /\ callers[k].pc = "filtering"
    /\ skipped \in 0..callers[k].n
    /\ dprogress' = IF skipped > 0
                    THEN [dprogress EXCEPT !.completed_files = skipped]
                    ELSE dprogress
    /\ callers' = [callers EXCEPT ![k].pc = "running",
                                  ![k].left = callers[k].n - skipped]
    /\ UNCHANGED <<fx, pvars, java, d_phase, d_tasks, d_st, d_requests, d_calls, d_ret,
                   disk, disk_at_call, cvars, svars, ivars>>

\* download_file of one worker of call k runs to its end, lines 148-176:
\* completed_files += 1 on success, the url pushed to failed_files when the
\* attempts are used up.
CallWorkerEnds(k, ok) ==
    /\ callers[k].pc = "running"
    /\ callers[k].left > 0
    /\ dprogress' = IF ok
                    THEN [dprogress EXCEPT !.completed_files = @ + 1,
                                           !.downloaded_bytes = @ + 2]
                    ELSE [dprogress EXCEPT !.failed_files = Append(@, "u")]
    /\ callers' = [callers EXCEPT ![k].left = @ - 1]
    /\ UNCHANGED <<fx, pvars, java, d_phase, d_tasks, d_st, d_requests, d_calls, d_ret,
                   disk, disk_at_call, cvars, svars, ivars>>

\* download_all, lines 117-138: every worker joined: finalise the state and
\* return; the install invocation then returns and drops its guard.
CallFinish(k) ==
    /\ callers[k].pc = "running"
    /\ callers[k].left = 0
    /\ dprogress' = [dprogress EXCEPT !.state =
                        IF dprogress.failed_files = <<>> THEN "completed"
                                                         ELSE "failed"]
    /\ callers' = [callers EXCEPT ![k] = [CallerIdle EXCEPT !.kind = callers[k].kind,
                                                            !.ret = "Ok"]]
    /\ install_in_progress' =
          drop_guard(install_in_progress, callers[k].kind = "install")
    /\ UNCHANGED <<fx, pvars, java, d_phase, d_tasks, d_st, d_requests, d_calls, d_ret,
                   disk, disk_at_call, cvars, svars, iprogress, inv, fs_dirs, mod_files>>

NextCallers ==
    \/ \E k \in Callers : DownloadVersionCheck(k)
    \/ \E k \in Callers, ok \in BOOLEAN, n \in 1..MaxCallTasks :
          DownloadVersionSpawn(k, ok, n)
    \/ \E k \in Callers, n \in 1..MaxCallTasks : InstallCallerBegin(k, n)
    \/ \E k \in Callers : CallReset(k)
    \/ \E k \in Callers, skipped \in 0..MaxCallTasks : CallFilter(k, skipped)
    \/ \E k \in Callers, ok \in BOOLEAN : CallWorkerEnds(k, ok)
    \/ \E k \in Callers : CallFinish(k)

\* ===========================================================================
\* Path safety (services/install.rs: safe_relative_path, extract_zip,
\* resolve_mr_mods, resolve_cf_mods)
\* ===========================================================================

\* A string is a sequence of characters; these are the characters that
\* matter to std::path.
PathChars == {"/", "\\", ".", "a", ":"}

Platforms == {"unix", "windows"}

\* std::path::is_separator.
Separators(platform) == IF platform = "windows" THEN {"/", "\\"} ELSE {"/"}

MAIN_SEPARATOR(platform) == IF platform = "windows" THEN "\\" ELSE "/"

\* The pieces of raw between separators (empty pieces included).
RECURSIVE Split(_, _)
Split(raw, seps) ==
    IF raw = <<>> THEN << <<>> >>
    ELSE LET rest == Split(Tail(raw), seps)
         IN IF Head(raw) \in seps
            THEN << <<>> >> \o rest
            ELSE << <<Head(raw)>> \o rest[1] >> \o Tail(rest)

\* A drive prefix ("a:") at the start of raw; only Windows parses one.
HasPrefix(raw, platform) ==
    platform = "windows" /\ Len(raw) >= 2 /\ raw[1] = "a" /\ raw[2] = ":"

AfterPrefix(raw, platform) ==
    IF HasPrefix(raw, platform) THEN SubSeq(raw, 3, Len(raw)) ELSE raw

\* Path::has_root.
has_root(raw, platform) ==
    LET r == AfterPrefix(raw, platform)
    IN r # <<>> /\ r[1] \in Separators(platform)

\* Path::components: Prefix, RootDir, then one component per non-empty
\* piece: CurDir for ".", ParentDir for "..", Normal otherwise.
components(raw, platform) ==
    LET pieces == Split(AfterPrefix(raw, platform), Separators(platform))
        kept == SelectSeq(pieces, LAMBDA x : x # <<>>)
        body == [k \in DOMAIN kept |->
                   IF kept[k] = <<".">> THEN [kind |-> "CurDir", seg |-> kept[k]]
                   ELSE IF kept[k] = <<".", ".">>
                        THEN [kind |-> "ParentDir", seg |-> kept[k]]
                   ELSE [kind |-> "Normal", seg |-> kept[k]]]
    IN (IF HasPrefix(raw, platform)
        THEN << [kind |-> "Prefix", seg |-> <<"a", ":">>] >> ELSE <<>>)
       \o (IF has_root(raw, platform)
           THEN << [kind |-> "RootDir", seg |-> <<>>] >> ELSE <<>>)
       \o body

\* PathBuf::push: a pushed path that has a prefix or a root replaces the
\* buffer; otherwise it is appended, after a separator unless the buffer is
\* empty, ends with a separator or is a bare drive prefix.
PathBufPush(buf, seg, platform) ==
    IF HasPrefix(seg, platform) \/ has_root(seg, platform) THEN seg
    ELSE IF buf = <<>> THEN seg
    ELSE IF buf[Len(buf)] \in Separators(platform) THEN buf \o seg
    ELSE IF HasPrefix(buf, platform) /\ Len(buf) = 2 THEN buf \o seg
    ELSE buf \o <<MAIN_SEPARATOR(platform)>> \o seg

\* The loop of safe_relative_path over the components: Normal segments are
\* pushed, CurDir is skipped, anything else rejects.
RECURSIVE Sanitise(_, _, _)
Sanitise(comps, sanitised, platform) ==
    IF comps = <<>> THEN [ok |-> TRUE, path |-> sanitised]
    ELSE IF Head(comps).kind = "Normal"
         THEN Sanitise(Tail(comps),
                       PathBufPush(sanitised, Head(comps).seg, platform), platform)
    ELSE IF Head(comps).kind = "CurDir"
         THEN Sanitise(Tail(comps), sanitised, platform)
    ELSE [ok |-> FALSE, path |-> <<>>]

\* safe_relative_path: <<>> for None, <<path>> for Some(path).
safe_relative_path(raw, platform) ==
    IF has_root(raw, platform) THEN <<>>
    ELSE LET r == Sanitise(components(raw, platform), <<>>, platform)
         IN IF ~r.ok THEN <<>>
            ELSE IF r.path = <<>> THEN <<>>
            ELSE << r.path >>

\* Path::join(dest, rel) stays under dest: rel neither replaces dest (a
\* prefix or a root) nor climbs above it through "..".
RECURSIVE Climbs(_, _)
Climbs(comps, depth) ==
    IF comps = <<>> THEN FALSE
    ELSE IF Head(comps).kind = "ParentDir"
         THEN depth = 0 \/ Climbs(Tail(comps), depth - 1)
    ELSE IF Head(comps).kind = "Normal" THEN Climbs(Tail(comps), depth + 1)
    ELSE Climbs(Tail(comps), depth)

JoinStaysUnder(rel, platform) ==
    /\ ~HasPrefix(rel, platform)
    /\ ~has_root(rel, platform)
    /\ ~Climbs(components(rel, platform), 0)

\* ZipFile::is_dir: the entry name ends with a slash or a backslash.
is_dir(name) == name # <<>> /\ name[Len(name)] \in {"/", "\\"}

\* An enclosed_name that only refuses a prefix and a root.
enclosed_name_any_depth(name, platform) ==
    IF \E k \in DOMAIN components(name, platform) :
          components(name, platform)[k].kind \in {"Prefix", "RootDir"}
    THEN <<>>
    ELSE << name >>

\* ZipFile::enclosed_name: None for a name with a prefix or a root
\* component or whose ".." components climb above the start; otherwise the
\* name as it is.
enclosed_name(name, platform) ==
    IF \E k \in DOMAIN components(name, platform) :
          components(name, platform)[k].kind \in {"Prefix", "RootDir"}
    THEN <<>>
    ELSE IF Climbs(components(name, platform), 0) THEN <<>>
    ELSE << name >>

\* extract_zip, lines 657-659: open the archive.
ExtractZipOpen(platform, ok) ==
    /\ fx = FxIdle
    /\ fx' = IF ok
             THEN [op |-> "extract_zip", platform |-> platform, n |-> 0,
                   entry |-> <<>>, wrote |-> <<>>, ret |-> None]
             ELSE [op |-> "extract_zip", platform |-> platform, n |-> 0,
                   entry |-> <<>>, wrote |-> <<>>, ret |-> "Err"]
    /\ UNCHANGED <<callers, pvars, java, dvars, cvars, svars, ivars>>

\* extract_zip, lines 661-681: one turn of the loop, for the next entry of
\* the archive: skip it when it has no enclosed name or is a directory,
\* else create the parents and the file below dest; an I/O error ends the
\* extraction.
ExtractZipEntry(entry, io_ok) ==
    /\ fx.op = "extract_zip"
    /\ fx.ret = None
    /\ fx.n < MaxEntries
    /\ LET enclosed == enclosed_name(entry.name, fx.platform)
       IN fx' = IF enclosed = <<>> \/ is_dir(entry.name)
                THEN [fx EXCEPT !.n = @ + 1, !.entry = <<entry>>, !.wrote = <<>>]
                ELSE IF io_ok
                THEN [fx EXCEPT !.n = @ + 1, !.entry = <<entry>>,
                                !.wrote = << enclosed[1] >>]
                ELSE [fx EXCEPT !.n = @ + 1, !.entry = <<entry>>,
                                !.wrote = <<>>, !.ret = "Err"]
    /\ UNCHANGED <<callers, pvars, java, dvars, cvars, svars, ivars>>

\* extract_zip, line 683: the archive has no further entry.
ExtractZipDone ==
    /\ fx.op = "extract_zip"
    /\ fx.ret = None
    /\ fx' = [fx EXCEPT !.ret = "Ok"]
    /\ UNCHANGED <<callers, pvars, java, dvars, cvars, svars, ivars>>

\* The instance directory and the name of its mods directory.
InstancePath == <<"/", "i">>

ModsDir == <<"m">>

\* str.rsplit('/').next(): the text after the last slash.
rsplit_last(raw) == Split(raw, {"/"})[Len(Split(raw, {"/"}))]

\* resolve_mr_mods for one file of the index: <<>> when the file is dropped,
\* else the ModDownloadInfo.
resolve_mr_mod(path, platform) ==
    LET validated_path == safe_relative_path(path, platform)
    IN IF validated_path = <<>> THEN <<>>
       ELSE << [filename |-> rsplit_last(path),
                relative_path |-> << validated_path[1] >>] >>

\* resolve_cf_mods for one resolved file: the platform's file name as it is.
resolve_cf_mod(file_name) ==
    << [filename |-> file_name, relative_path |-> <<>>] >>

\* install_modpack, lines 286-292: the destination of a mod's DownloadTask.
mod_dest(m, platform) ==
    LET fallback == PathBufPush(PathBufPush(InstancePath, ModsDir, platform),
                                m.filename, platform)
    IN IF m.relative_path = <<>> THEN fallback
       ELSE LET safe == safe_relative_path(m.relative_path[1], platform)
            IN IF safe = <<>> THEN fallback
               ELSE PathBufPush(InstancePath, safe[1], platform)

\* A component list with "." dropped and each ".." cancelled against the
\* Normal component before it.
RECURSIVE Normalise(_, _)
Normalise(comps, acc) ==
    IF comps = <<>> THEN acc
    ELSE LET c == Head(comps)
         IN IF c.kind = "CurDir" THEN Normalise(Tail(comps), acc)
            ELSE IF c.kind = "ParentDir" /\ acc # <<>>
                    /\ acc[Len(acc)].kind = "Normal"
                 THEN Normalise(Tail(comps), SubSeq(acc, 1, Len(acc) - 1))
            ELSE IF c.kind = "ParentDir" /\ acc # <<>>
                    /\ acc[Len(acc)].kind = "RootDir"
                 THEN Normalise(Tail(comps), acc)
            ELSE Normalise(Tail(comps), Append(acc, c))

\* p names a location below base.
LiesUnder(base, p, platform) ==
    LET b == Normalise(components(base, platform), <<>>)
        q == Normalise(components(p, platform), <<>>)
    IN Len(q) > Len(b) /\ SubSeq(q, 1, Len(b)) = b

\* One mod of a pack goes from the manifest to its DownloadTask.
EvalModDest(format, str, platform) ==
    /\ fx = FxIdle
    /\ LET m == IF format = "modrinth" THEN resolve_mr_mod(str, platform)
                                       ELSE resolve_cf_mod(str)
       IN fx' = [op |-> "mod_dest", format |-> format, raw |-> str,
                 platform |-> platform,
                 dest |-> IF m = <<>> THEN <<>> ELSE << mod_dest(m[1], platform) >>]
    /\ UNCHANGED <<callers, pvars, java, dvars, cvars, svars, ivars>>

\* safe_relative_path is called on a string.
EvalSafeRelativePath(raw, platform) ==
    /\ fx = FxIdle
    /\ fx' = [op |-> "safe_relative_path", raw |-> raw, platform |-> platform,
              out |-> safe_relative_path(raw, platform)]
    /\ UNCHANGED <<callers, pvars, java, dvars, cvars, svars, ivars>>

\* ===========================================================================
\* Share codes (services/p2p/share_code.rs)
\* ===========================================================================

\* Strings are sequences of one-character strings.
SHARE_CODE_PREFIX == <<"M", "I", "N", "E", "-">>

\* b"ABCDEFGHJKLMNPQRSTUVWXYZ23456789"
CODE_ALPHABET ==
    <<"A", "B", "C", "D", "E", "F", "G", "H", "J", "K", "L", "M", "N", "P",
      "Q", "R", "S", "T", "U", "V", "W", "X", "Y", "Z", "2", "3", "4", "5",
      "6", "7", "8", "9">>

\* The first n elements of a sequence (Iterator::take).
take(s, n) == SubSeq(s, 1, IF Len(s) < n THEN Len(s) ELSE n)

\* A share code that encodes every byte of the peer id.
generate_share_code_every_byte(bytes) ==
    SHARE_CODE_PREFIX \o [i \in 1..Len(bytes) |->
                            CODE_ALPHABET[(bytes[i] % Len(CODE_ALPHABET)) + 1]]

\* generate_share_code: the first CODE_LENGTH bytes of the peer id, each
\* mapped to CODE_ALPHABET[byte % len], after the prefix.
generate_share_code(bytes) ==
    LET head == take(bytes, CODE_LENGTH)
    IN SHARE_CODE_PREFIX \o [i \in 1..Len(head) |->
                               CODE_ALPHABET[(head[i] % Len(CODE_ALPHABET)) + 1]]

\* generate_share_code is called on a peer id.
EvalGenerateShareCode(bytes) ==
    /\ fx = FxIdle
    /\ fx' = [op |-> "generate_share_code", peer_id |-> bytes,
              code |-> generate_share_code(bytes)]
    /\ UNCHANGED <<callers, pvars, java, dvars, cvars, svars, ivars>>

\* ===========================================================================
\* compute_diff and apply_diff on arbitrary mod lists
\* ===========================================================================

\* SyncModEntry values: mod "a" in a version with and without a hash, a
\* second version with the same hash and the first version with another
\* hash; mod "b" in one version.
DiffEntries ==
    { Entry("a", vh[1], "a-" \o vh[1], vh[2]) :
        vh \in { <<"1", None>>, <<"1", "h1">>, <<"2", "h1">>, <<"1", "h2">> } }
      \cup { Entry("b", "1", "b-1", None) }

\* The entries the apply_diff evaluations draw from.
ApplyEntries ==
    { Entry("a", "1", "a-1", None), Entry("a", "2", "a-2", "h1"),
      Entry("b", "1", "b-1", None) }

\* The catalog rows of instance iid that a mod list stands for, in
\* insertion order.
RowsOf(iid, entries) ==
    [k \in DOMAIN entries |->
        [ModRow(iid, entries[k].mod_name, entries[k].mod_version,
                entries[k].file_name, entries[k].file_hash) EXCEPT !.id = k]]

\* preview_sync, lines 23-47: the local manifest built from the listing.
LocalManifest(inst, listed) ==
    Manifest(inst.id, inst.minecraft_version, inst.loader_type,
             [k \in DOMAIN listed |->
                Entry(listed[k].name, listed[k].version, listed[k].file_name,
                      listed[k].file_hash)])

TheInstance ==
    [id |-> 1, is_active |-> TRUE, minecraft_version |-> "1.20",
     loader_type |-> None]

\* compute_diff is called on two manifests.
EvalComputeDiff(local, remote) ==
    /\ fx = FxIdle
    /\ LET l == Manifest(1, "1.20", None, local)
           r == Manifest("remote", "1.20", None, remote)
       IN fx' = [op |-> "compute_diff", local |-> local, remote |-> remote,
                 diff |-> compute_diff(l, r)]
    /\ UNCHANGED <<callers, pvars, java, dvars, cvars, svars, ivars>>

\* The store holds the rows of local for one instance; the diff against a
\* remote manifest is computed as preview_sync does and handed to
\* apply_diff, whose store operations meet the faults f.
EvalApplyDiff(local, remote, f) ==
    /\ fx = FxIdle
    /\ LET insts == <<TheInstance>>
           mods == RowsOf(1, local)
           l == LocalManifest(TheInstance, list_instance_mods(mods, 1))
           r == Manifest("remote", "1.20", None, remote)
           diff == compute_diff(l, r)
           out == apply_diff(mods, insts, 1, diff, f)
       IN fx' = [op |-> "apply_diff", local |-> local, remote |-> remote,
                 f |-> f, diff |-> diff, mods |-> out.mods, res |-> out.res,
                 ret |-> "Ok"]
    /\ UNCHANGED <<callers, pvars, java, dvars, cvars, svars, ivars>>

NextDiff ==
    \/ \E local \in SeqsUpTo(DiffEntries, MaxListLen),
          remote \in SeqsUpTo(DiffEntries, MaxListLen) :
          EvalComputeDiff(local, remote)
    \/ \E local \in SeqsUpTo(ApplyEntries, MaxListLen),
          remote \in SeqsUpTo(ApplyEntries, MaxListLen), f \in StoreFaults :
          EvalApplyDiff(local, remote, f)

\* Disks a call can find: d1 absent or holding a 2-byte file, d2 absent,
\* empty or holding a 2-byte file.
DiskStates == {f \in [Dests -> {None} \cup Bodies] :
                 f["d1"] # "b0" /\ f["d2"] # "b2"}

InitCatalog ==
    /\ db_instances = <<>>
    /\ db_mods = <<>>
    /\ next_uuid = 0

InitSyncVars ==
    /\ pending_syncs = <<>>
    /\ next_session = 0
    /\ ap = [a \in Appliers |-> ApplierIdle]
    /\ sync_last = Last("none", 0, TRUE, None, None)

\* ===========================================================================
\* UnifiedModClient (services/mod_platform/mod.rs)
\* ===========================================================================

\* str::to_lowercase on the slugs in use.
to_lowercase(slug) == IF slug = "A" THEN "a" ELSE slug

\* ModSearchResult values a platform can return.
Hit(slug, source, downloads) ==
    [slug |-> slug, source |-> source, downloads |-> downloads]

HitsOf(source) ==
    { Hit("a", source, 1), Hit("A", source, 2), Hit("b", source, 3) }

\* sort_by(|a, b| b.downloads.cmp(&a.downloads)): a stable sort, most
\* downloads first.
RECURSIVE InsertByDownloads(_, _)
InsertByDownloads(sorted, hit) ==
    IF sorted = <<>> THEN <<hit>>
    ELSE IF Head(sorted).downloads >= hit.downloads
         THEN <<Head(sorted)>> \o InsertByDownloads(Tail(sorted), hit)
         ELSE <<hit>> \o sorted

RECURSIVE SortByDownloads(_)
SortByDownloads(hits) ==
    IF hits = <<>> THEN <<>>
    ELSE InsertByDownloads(SortByDownloads(SubSeq(hits, 1, Len(hits) - 1)),
                           hits[Len(hits)])

\* The second loop of deduplicate_results: CurseForge hits whose lowercased
\* slug was not seen are appended.
RECURSIVE AppendUnseen(_, _, _)
AppendUnseen(merged, seen_slugs, curseforge) ==
    IF curseforge = <<>> THEN merged
    ELSE LET hit == Head(curseforge)
             slug == to_lowercase(hit.slug)
         IN IF slug \notin seen_slugs
            THEN AppendUnseen(Append(merged, hit), seen_slugs \cup {slug},
                              Tail(curseforge))
            ELSE AppendUnseen(merged, seen_slugs, Tail(curseforge))

\* A merge that appends every CurseForge hit.
deduplicate_results_keep_all(modrinth, curseforge) ==
    SortByDownloads(modrinth \o curseforge)

\* deduplicate_results: every Modrinth hit, then the unseen CurseForge
\* hits, sorted by downloads.
deduplicate_results(modrinth, curseforge) ==
    SortByDownloads(
        AppendUnseen(modrinth,
                     {to_lowercase(modrinth[k].slug) : k \in DOMAIN modrinth},
                     curseforge))

\* A platform's answer to search_mods: an error or a SearchResponse.
SearchErr == [ok |-> FALSE, hits |-> <<>>, total_hits |-> 0]

SearchOk(hits) == [ok |-> TRUE, hits |-> hits, total_hits |-> Len(hits)]

empty_response == SearchOk(<<>>)

\* UnifiedModClient::search_mods: with a CurseForge client the two answers
\* are merged, an error replaced by the empty response; without one the
\* Modrinth answer is returned as it is.
search_mods(has_curseforge, mr_result, cf_result) ==
    IF has_curseforge
    THEN LET mr == IF mr_result.ok THEN mr_result ELSE empty_response
             cf == IF cf_result.ok THEN cf_result ELSE empty_response
         IN [ok |-> TRUE,
             hits |-> deduplicate_results(mr.hits, cf.hits),
             total_hits |-> mr.total_hits + cf.total_hits]
    ELSE mr_result

EvalDeduplicateResults(modrinth, curseforge) ==
    /\ fx = FxIdle
    /\ fx' = [op |-> "deduplicate_results", modrinth |-> modrinth,
              curseforge |-> curseforge,
              merged |-> deduplicate_results(modrinth, curseforge)]
    /\ UNCHANGED <<callers, pvars, java, dvars, cvars, svars, ivars>>

EvalSearchMods(has_curseforge, mr_result, cf_result) ==
    /\ fx = FxIdle
    /\ fx' = [op |-> "search_mods", has_curseforge |-> has_curseforge,
              mr_result |-> mr_result, cf_result |-> cf_result,
              out |-> search_mods(has_curseforge, mr_result, cf_result)]
    /\ UNCHANGED <<callers, pvars, java, dvars, cvars, svars, ivars>>

\* ---- resolve_dependencies --------------------------------------------------

Projects == 1..MaxProjects

\* A project every version lists as an Optional dependency.
OptionalProject == 0

\* The dependencies of the first version get_versions returns for a project
\* whose Required dependencies are required.
Dependencies(required) ==
    [k \in 1..(Cardinality(required) + 1) |->
        IF k = Cardinality(required) + 1
        THEN [project_id |-> OptionalProject, dependency_type |-> "Optional"]
        ELSE [project_id |->
                CHOOSE p \in required :
                    Cardinality({q \in required : q < p}) = k - 1,
              dependency_type |-> "Required"]]

\* Lines 190-195 and 216-223: push the Required dependencies that pass keep.
RECURSIVE PushRequired(_, _, _)
PushRequired(queue, deps, visited) ==
    IF deps = <<>> THEN queue
    ELSE PushRequired(
            IF Head(deps).dependency_type = "Required"
                 /\ Head(deps).project_id \notin visited
            THEN Append(queue, Head(deps).project_id) ELSE queue,
            Tail(deps), visited)

\* resolve_dependencies up to the loop: the queue is seeded from the
\* version's dependencies. graph gives the Required dependencies of each
\* project's first version, failing the projects whose get_versions
\* returns an error, empty the projects without a version.
ResolveStart(seed, graph, failing, empty) ==
    /\ fx = FxIdle
    /\ fx' = [op |-> "resolve_dependencies", pc |-> "loop", seed |-> seed,
              graph |-> graph, failing |-> failing, empty |-> empty,
              queue |-> PushRequired(<<>>, Dependencies(seed), {}),
              visited |-> {}, resolved |-> <<>>, queried |-> <<>>,
              ret |-> None]
    /\ UNCHANGED <<callers, pvars, java, dvars, cvars, svars, ivars>>

\* An iteration that forgets to mark the project visited.
ResolveIterationNoVisited(r) ==
    LET project_id == r.queue[Len(r.queue)]
        rest == SubSeq(r.queue, 1, Len(r.queue) - 1)
        asked == [r EXCEPT !.queue = rest,
                           !.queried = Append(@, project_id)]
    IN IF project_id \in r.failing \/ project_id \in r.empty
       THEN asked
       ELSE [asked EXCEPT
               !.queue = PushRequired(rest, Dependencies(r.graph[project_id]),
                                      r.visited),
               !.resolved = Append(@, project_id)]

\* One iteration of the loop of lines 197-227.
ResolveIteration(r) ==
    LET project_id == r.queue[Len(r.queue)]
        rest == SubSeq(r.queue, 1, Len(r.queue) - 1)
    IN IF project_id \in r.visited
       THEN [r EXCEPT !.queue = rest]
       ELSE LET visited == r.visited \cup {project_id}
                asked == [r EXCEPT !.queue = rest, !.visited = visited,
                                   !.queried = Append(@, project_id)]
            IN IF project_id \in r.failing \/ project_id \in r.empty
               THEN asked
               ELSE [asked EXCEPT
                       !.queue = PushRequired(rest,
                                    Dependencies(r.graph[project_id]), visited),
                       !.resolved = Append(@, project_id)]

ResolvePop ==
    /\ fx.op = "resolve_dependencies" /\ fx.pc = "loop"
    /\ fx.queue # <<>>
    /\ fx' = ResolveIteration(fx)
    /\ UNCHANGED <<callers, pvars, java, dvars, cvars, svars, ivars>>

\* Line 229: the queue is empty, Ok(resolved).
ResolveReturn ==
    /\ fx.op = "resolve_dependencies" /\ fx.pc = "loop"
    /\ fx.queue = <<>>
    /\ fx' = [fx EXCEPT !.pc = "returned", !.ret = "Ok"]
    /\ UNCHANGED <<callers, pvars, java, dvars, cvars, svars, ivars>>

ResolveStep == ResolvePop \/ ResolveReturn

\* ===========================================================================
\* P2pService (services/p2p/mod.rs), the swarm task (swarm_loop.rs) and the
\* p2p commands (commands/p2p.rs)
\* ===========================================================================

Services == 1..MaxStarts

\* A service that was never started.
P2pUnstarted ==
    [running |-> FALSE, tx |-> FALSE, rx |-> FALSE, chan |-> <<>>,
     loop |-> "none", shared |-> <<>>, connected_peers |-> 0]

\* P2pService::start, lines 36-57: the channel, the flag and the spawned task.
P2pStarted ==
    [running |-> TRUE, tx |-> TRUE, rx |-> TRUE, chan |-> <<>>,
     loop |-> "listen", shared |-> <<>>, connected_peers |-> 0]

P2pStateNew == [service |-> 0, pc |-> "idle", started |-> 0, ret |-> None]

Shutdown == [type |-> "Shutdown"]

ShareModpackCmd(manifest) == [type |-> "ShareModpack", manifest |-> manifest]

\* start_p2p: a running service is kept; otherwise a new one replaces the
\* stored one, whose command sender is dropped with it.
StartP2p(ok) ==
    /\ p2p_state.pc = "idle"
    /\ LET cur == p2p_state.service
       IN IF cur # 0 /\ p2p[cur].running
          THEN /\ p2p_state' = [p2p_state EXCEPT !.ret = "Ok"]
               /\ UNCHANGED p2p
          ELSE /\ p2p_state.started < MaxStarts
               /\ IF ok
                  THEN LET s == p2p_state.started + 1
                       IN /\ p2p' = [x \in Services |->
                                       IF x = s THEN P2pStarted
                                       ELSE IF x = cur
                                       THEN [p2p[x] EXCEPT !.tx = FALSE]
                                       ELSE p2p[x]]
                          /\ p2p_state' = [p2p_state EXCEPT !.service = s,
                                              !.started = s, !.ret = "Ok"]
                  ELSE /\ p2p_state' = [p2p_state EXCEPT !.ret = "Err"]
                       /\ UNCHANGED p2p
    /\ UNCHANGED <<callers, fx, java, dvars, cvars, svars, ivars>>

\* share_modpack: build the manifest of the instance from the catalog and
\* send it to the swarm task.
ShareModpack(iid) ==
    /\ p2p_state.pc = "idle"
    /\ LET cur == p2p_state.service
           found == get_instance(db_instances, iid)
       IN IF cur = 0 \/ found = <<>> \/ ~p2p[cur].rx
          THEN /\ p2p_state' = [p2p_state EXCEPT !.ret = "Err"]
               /\ UNCHANGED p2p
          ELSE LET manifest ==
                     [instance_id |-> iid,
                      mods |-> LocalManifest(found[1],
                                  list_instance_mods(db_mods, iid)).mods,
                      manifest_version |-> 1]
                   sent == Cardinality({k \in DOMAIN p2p[cur].chan :
                              p2p[cur].chan[k].type = "ShareModpack"})
               IN /\ Len(p2p[cur].chan) < MaxQueued
                  /\ Len(p2p[cur].shared) + sent < MaxShares
                  /\ p2p' = [p2p EXCEPT ![cur].chan =
                                Append(@, ShareModpackCmd(manifest))]
                  /\ p2p_state' = [p2p_state EXCEPT !.ret = "Ok"]
    /\ UNCHANGED <<callers, fx, java, dvars, cvars, svars, ivars>>

\* stop_p2p up to the flag test of P2pService::stop (mod.rs lines 61-63).
StopP2pBegin ==
    /\ p2p_state.pc = "idle"
    /\ LET cur == p2p_state.service
       IN p2p_state' =
            IF cur = 0 THEN [p2p_state EXCEPT !.ret = "Ok"]
            ELSE IF ~p2p[cur].running
            THEN [p2p_state EXCEPT !.pc = "stop_returned"]
            ELSE [p2p_state EXCEPT !.pc = "stop_send"]
    /\ UNCHANGED <<p2p, callers, fx, java, dvars, cvars, svars, ivars>>

\* P2pService::stop, lines 65-68: send Shutdown; a closed channel is an
\* error, which stop_p2p returns with the service left in place.
StopP2pSend ==
    /\ p2p_state.pc = "stop_send"
    /\ LET cur == p2p_state.service
       IN IF p2p[cur].rx
          THEN /\ p2p' = [p2p EXCEPT ![cur].chan = Append(@, Shutdown)]
               /\ p2p_state' = [p2p_state EXCEPT !.pc = "stop_store"]
          ELSE /\ p2p_state' = [p2p_state EXCEPT !.pc = "idle", !.ret = "Err"]
               /\ UNCHANGED p2p
    /\ UNCHANGED <<callers, fx, java, dvars, cvars, svars, ivars>>

\* P2pService::stop, lines 70-72: clear the flag and return.
StopP2pStore ==
    /\ p2p_state.pc = "stop_store"
    /\ p2p' = [p2p EXCEPT ![p2p_state.service].running = FALSE]
    /\ p2p_state' = [p2p_state EXCEPT !.pc = "stop_returned"]
    /\ UNCHANGED <<callers, fx, java, dvars, cvars, svars, ivars>>

\* A release of the service that leaves its command sender alive.
StopP2pForget ==
    /\ p2p_state.pc = "stop_returned"
    /\ p2p_state' = [p2p_state EXCEPT !.service = 0, !.pc = "idle", !.ret = "Ok"]
    /\ UNCHANGED <<p2p, callers, fx, java, dvars, cvars, svars, ivars>>

\* stop_p2p line 47 (launch.rs line 457-459): the service is dropped, and
\* its command sender with it.
StopP2pDrop ==
    /\ p2p_state.pc = "stop_returned"
    /\ p2p' = [p2p EXCEPT ![p2p_state.service].tx = FALSE]
    /\ p2p_state' = [p2p_state EXCEPT !.service = 0, !.pc = "idle", !.ret = "Ok"]
    /\ UNCHANGED <<callers, fx, java, dvars, cvars, svars, ivars>>

\* The swarm task ends: the command receiver is dropped with it.
LoopExit(r) == [r EXCEPT !.loop = "exited", !.running = FALSE, !.rx = FALSE]

\* run, lines 101-111: listen; on failure the task returns at once, the
\* flag left as it is.
LoopListen(s, ok) ==
    /\ p2p[s].loop = "listen"
    /\ p2p' = [p2p EXCEPT ![s] =
                 IF ok THEN [@ EXCEPT !.loop = "top"]
                       ELSE [@ EXCEPT !.loop = "exited", !.rx = FALSE]]
    /\ UNCHANGED <<p2p_state, callers, fx, java, dvars, cvars, svars, ivars>>

\* run, lines 118-121: the flag test at the top of the loop.
LoopTop(s) ==
    /\ p2p[s].loop = "top"
    /\ p2p' = [p2p EXCEPT ![s] =
                 IF ~@.running THEN LoopExit(@) ELSE [@ EXCEPT !.loop = "select"]]
    /\ UNCHANGED <<p2p_state, callers, fx, java, dvars, cvars, svars, ivars>>

\* handle_command: ShareModpack stores the manifest under the share code;
\* Shutdown is logged.
handle_command(r, command) ==
    IF command.type = "ShareModpack"
    THEN [r EXCEPT !.shared = Append(@, command.manifest)]
    ELSE r

\* run, lines 125-136: commands.recv() yields a command, or None once the
\* channel is empty and every sender is gone.
LoopRecv(s) ==
    /\ p2p[s].loop = "select"
    /\ \/ /\ p2p[s].chan # <<>>
          /\ p2p' = [p2p EXCEPT ![s] =
                       [handle_command(@, Head(@.chan)) EXCEPT
                           !.chan = Tail(p2p[s].chan), !.loop = "top"]]
       \/ /\ p2p[s].chan = <<>> /\ ~p2p[s].tx
          /\ p2p' = [p2p EXCEPT ![s] = LoopExit(@)]
    /\ UNCHANGED <<p2p_state, callers, fx, java, dvars, cvars, svars, ivars>>

\* handle_swarm_event: connections are counted, other events logged.
handle_swarm_event(r, event) ==
    CASE event = "ConnectionEstablished" ->
            [r EXCEPT !.connected_peers = @ + 1]
      [] event = "ConnectionClosed" ->
            [r EXCEPT !.connected_peers = IF @ = 0 THEN 0 ELSE @ - 1]
      [] OTHER -> r

\* run, lines 138-140: a swarm event is handled.
LoopSwarmEvent(s, event) ==
    /\ p2p[s].loop = "select"
    /\ event = "ConnectionEstablished" => p2p[s].connected_peers < MaxPeers
    /\ p2p' = [p2p EXCEPT ![s] =
                 [handle_swarm_event(@, event) EXCEPT !.loop = "top"]]
    /\ UNCHANGED <<p2p_state, callers, fx, java, dvars, cvars, svars, ivars>>

\* The steps of the swarm task of service s that need no event.
LoopStep(s) == (\E ok \in BOOLEAN : LoopListen(s, ok)) \/ LoopTop(s) \/ LoopRecv(s)

\* The steps of a stop_p2p command past its first.
StopStep == StopP2pSend \/ StopP2pStore \/ StopP2pDrop

\* ===========================================================================
\* JavaService (services/java.rs)
\* ===========================================================================

StatusCalls == 1..NumStatusCalls

\* JavaRuntimeStatus values; stage is set for Installing only.
JavaStatus(type) == [type |-> type, stage |-> None]

Installing(stage) == [type |-> "Installing", stage |-> stage]

\* The stage published after this one by install_runtime_locked.
NextStage(stage) ==
    CASE stage = "preparing" -> "downloading"
      [] stage = "downloading" -> "verifying"
      [] stage = "verifying" -> "extracting"
      [] stage = "extracting" -> "extracting"

\* Positions of install_runtime_locked after it published Installing.
InstallStages == {"preparing", "downloading", "verifying", "extracting"}

StatusCallIdle == [pc |-> "idle", current |-> JavaStatus("Missing"),
                   ret |-> JavaStatus("Missing")]

\* JavaService::new: status Missing, the install lock free. runtime tells
\* whether resolve_existing_java finds a Java; install is the position of
\* the install_runtime call.
JavaServiceNew ==
    [status |-> JavaStatus("Missing"), install_lock |-> FALSE,
     runtime |-> FALSE, install |-> "idle",
     calls |-> [k \in StatusCalls |-> StatusCallIdle]]

\* status, line 34: clone the stored status.
JavaStatusRead(k) ==
    /\ java.calls[k].pc \in {"idle", "returned"}
    /\ java' = [java EXCEPT !.calls[k] =
                  [pc |-> "read", current |-> java.status, ret |-> JavaStatus("Missing")]]
    /\ UNCHANGED <<callers, fx, pvars, dvars, cvars, svars, ivars>>

\* status, lines 35-41: a stored Installing is returned when try_lock on the
\* install lock fails; the guard of a successful try_lock is dropped at once.
JavaStatusCheck(k) ==
    /\ java.calls[k].pc = "read"
    /\ java' = IF java.calls[k].current.type = "Installing" /\ java.install_lock
               THEN [java EXCEPT !.calls[k].pc = "returned",
                                 !.calls[k].ret = java.calls[k].current]
               ELSE [java EXCEPT !.calls[k].pc = "resolve"]
    /\ UNCHANGED <<callers, fx, pvars, dvars, cvars, svars, ivars>>

\* status, lines 43-60: store and return Ready when a Java is found;
\* otherwise return a stored Error as it is, or store and return Missing.
JavaStatusResolve(k) ==
    /\ java.calls[k].pc = "resolve"
    /\ java' = IF java.runtime
               THEN [java EXCEPT !.status = JavaStatus("Ready"),
                                 !.calls[k].pc = "returned",
                                 !.calls[k].ret = JavaStatus("Ready")]
               ELSE IF java.calls[k].current.type = "Error"
               THEN [java EXCEPT !.calls[k].pc = "returned",
                                 !.calls[k].ret = java.calls[k].current]
               ELSE [java EXCEPT !.status = JavaStatus("Missing"),
                                 !.calls[k].pc = "returned",
                                 !.calls[k].ret = JavaStatus("Missing")]
    /\ UNCHANGED <<callers, fx, pvars, dvars, cvars, svars, ivars>>

\* install_runtime, line 64: take the install lock.
JavaInstallLock ==
    /\ java.install = "idle"
    /\ ~java.install_lock
    /\ java' = [java EXCEPT !.install_lock = TRUE, !.install = "locked"]
    /\ UNCHANGED <<callers, fx, pvars, dvars, cvars, svars, ivars>>

\* install_runtime_locked, lines 77-96: an existing Java ends the call with
\* Ready; otherwise Installing{preparing} is published.
JavaInstallBegin ==
    /\ java.install = "locked"
    /\ java' = IF java.runtime
               THEN [java EXCEPT !.status = JavaStatus("Ready"),
                                 !.install_lock = FALSE, !.install = "idle"]
               ELSE [java EXCEPT !.status = Installing("preparing"),
                                 !.install = "preparing"]
    /\ UNCHANGED <<callers, fx, pvars, dvars, cvars, svars, ivars>>

\* install_runtime_locked, lines 98-120: publish the next Installing stage,
\* or fail: install_runtime stores Error (lines 67-71) and drops the guard.
JavaInstallStage(ok) ==
    /\ java.install \in InstallStages \ {"extracting"}
    /\ java' = IF ok
               THEN [java EXCEPT !.status = Installing(NextStage(java.install)),
                                 !.install = NextStage(java.install)]
               ELSE [java EXCEPT !.status = JavaStatus("Error"),
                                 !.install_lock = FALSE, !.install = "idle"]
    /\ UNCHANGED <<callers, fx, pvars, dvars, cvars, svars, ivars>>

\* install_runtime_locked, lines 122-160: extract, probe, write the marker
\* and store Ready; or fail with Error. Either way the guard is dropped.
JavaInstallFinish(ok) ==
    /\ java.install = "extracting"
    /\ java' = IF ok
               THEN [java EXCEPT !.status = JavaStatus("Ready"), !.runtime = TRUE,
                                 !.install_lock = FALSE, !.install = "idle"]
               ELSE [java EXCEPT !.status = JavaStatus("Error"),
                                 !.install_lock = FALSE, !.install = "idle"]
    /\ UNCHANGED <<callers, fx, pvars, dvars, cvars, svars, ivars>>

\* The install_runtime future is dropped before it completes (its task is
\* cancelled or panics): the guard is released, the status stays.
JavaInstallDropped ==
    /\ java.install \in InstallStages
    /\ java' = [java EXCEPT !.install_lock = FALSE, !.install = "idle"]
    /\ UNCHANGED <<callers, fx, pvars, dvars, cvars, svars, ivars>>

\* The managed runtime disappears from disk (the user removes it).
JavaRuntimeRemoved ==
    /\ java.runtime
    /\ java.install = "idle"
    /\ java' = [java EXCEPT !.runtime = FALSE]
    /\ UNCHANGED <<callers, fx, pvars, dvars, cvars, svars, ivars>>

InitInstallVars ==
    /\ install_in_progress = FALSE
    /\ iprogress = InstallProgressIdle
    /\ inv = [c \in Installers |-> InvIdle]
    /\ fs_dirs = {}
    /\ mod_files = {}
    /\ callers = [k \in Callers |-> CallerIdle]
    /\ fx = FxIdle
    /\ p2p = [s \in Services |-> P2pUnstarted]
    /\ p2p_state = P2pStateNew
    /\ java = JavaServiceNew

InitDownloadVars ==
    /\ dprogress = DownloadProgressNew
    /\ d_phase = "idle"
    /\ d_tasks = <<>>
    /\ d_st = <<>>
    /\ d_requests = 0
    /\ d_calls = 0
    /\ d_ret = None
    /\ disk = [d \in Dests |-> None]
    /\ disk_at_call = disk

InitDownload ==
    /\ InitCatalog
    /\ InitSyncVars
    /\ InitInstallVars
    /\ dprogress = DownloadProgressNew
    /\ d_phase = "idle"
    /\ d_tasks = <<>>
    /\ d_st = <<>>
    /\ d_requests = 0
    /\ d_calls = 0
    /\ d_ret = None
    /\ disk \in DiskStates
    /\ disk_at_call = disk

NextDownload ==
    \/ \E tasks \in SeqsUpTo(TaskPool, MaxTasks) : DownloadAllStart(tasks)
    \/ \E i \in 1..MaxTasks, ok \in BOOLEAN : WorkerAcquire(i, ok)
    \/ \E i \in 1..MaxTasks, resp \in Responses, ok \in BOOLEAN :
          WorkerAttempt(i, resp, ok)
    \/ DownloadAllFinish

SpecDownload == InitDownload /\ [][NextDownload]_vars

SessionIds == 1..MaxSessions

InitSync ==
    /\ InitCatalog
    /\ InitSyncVars
    /\ InitInstallVars
    /\ InitDownloadVars

NextSync ==
    \/ \E mc \in {"1.20"}, loader \in {None} : CreateInstance(mc, loader)
    \/ \E iid \in 1..MaxInstances, remote \in RemoteManifests :
          PreviewSync(iid, remote)
    \/ \E sid \in SessionIds : ConfirmSync(sid)
    \/ \E sid \in SessionIds : RejectSync(sid)
    \/ \E sid \in SessionIds : CompleteSync(sid)
    \/ CleanupFinished
    \/ \E a \in {1}, sid \in SessionIds : ApplyGet(a, sid)
    \/ \E a \in {1} : ApplyConfirm(a)
    \/ \E a \in {1}, f \in SyncStoreFaults : ApplyDiff(a, f)
    \/ \E a \in {1} : ApplyComplete(a)

SpecSync == InitSync /\ [][NextSync]_vars

PackNames == {"Pack"}

ModFiles == {"x.jar"}

Init ==
    /\ InitCatalog
    /\ InitSyncVars
    /\ InitInstallVars
    /\ InitDownloadVars

Next ==
    \/ \E mc \in {"1.20"}, loader \in {None} : CreateInstance(mc, loader)
    \/ \E c \in Installers, name \in PackNames : InstallModpackBegin(c, name, None)
    \/ \E c \in Installers, ok \in BOOLEAN : InstallModpackTempDir(c, ok)
    \/ \E c \in Installers, ok \in BOOLEAN : InstallModpackFetch(c, ok)
    \/ \E c \in Installers, failed \in SUBSET {"pack.zip"} :
          InstallModpackDownloadPack(c, failed)
    \/ \E c \in Installers, ok \in BOOLEAN : InstallModpackExtract(c, ok)
    \/ \E c \in Installers, ok \in BOOLEAN, pack \in Packs :
          InstallModpackParse(c, ok, pack)
    \/ \E c \in Installers : InstallModpackCreating(c)
    \/ \E c \in Installers, ok \in BOOLEAN : InstallModpackCreateDir(c, ok)
    \/ \E c \in Installers, ok \in BOOLEAN, failed \in SUBSET {"client.jar"} :
          InstallModpackMinecraft(c, ok, failed)
    \/ \E c \in Installers, ok \in BOOLEAN, failed \in SUBSET {"loader.jar"} :
          InstallModpackLoader(c, ok, failed)
    \/ \E c \in Installers, ok \in BOOLEAN : InstallModpackResolve(c, ok)
    \/ \E c \in Installers, failed \in SUBSET {"m.jar"} :
          InstallModpackDownloadMods(c, failed)
    \/ \E c \in Installers, ok \in BOOLEAN : InstallModpackOverrides(c, ok)
    \/ \E c \in Installers : InstallModpackRollback(c)
    \/ \E c \in Installers : InstallModpackRegistering(c)
    \/ \E c \in Installers, ok \in BOOLEAN : InstallModpackCreateInstance(c, ok)
    \/ \E c \in Installers, ok_files \in SUBSET {"m.jar"} :
          InstallModpackFinish(c, ok_files)
    \/ \E c \in Installers, iid \in 1..MaxInstances : InstallModBegin(c, iid)
    \/ \E c \in Installers, ok \in BOOLEAN, file \in ModFiles :
          InstallModFetch(c, ok, file)
    \/ \E c \in Installers, failed \in SUBSET ModFiles : InstallModDownload(c, failed)
    \/ \E c \in Installers, ok \in BOOLEAN : InstallModRegister(c, ok)

Spec == Init /\ [][Next]_vars

SpecCallers == Init /\ [][NextCallers]_vars

\* One download_all call over up to MaxPending tasks, none of them cached.
PendingTask == [url |-> "u2", dest |-> "d2", sha1 |-> None, size |-> 2]

NextWorkers ==
    \/ \E n \in 1..MaxPending : DownloadAllStart([i \in 1..n |-> PendingTask])
    \/ \E i \in 1..MaxPending, ok \in BOOLEAN : WorkerAcquire(i, ok)
    \/ \E i \in 1..MaxPending, resp \in {"net_error", "b2"} :
          WorkerAttempt(i, resp, TRUE)
    \/ DownloadAllFinish

\* The runtime keeps polling the spawned tasks, and the tokio semaphore
\* hands a released permit to a waiter: some worker steps whenever one can.
FairWorkers == WF_vars(NextWorkers)

SpecWorkers == Init /\ [][NextWorkers]_vars /\ FairWorkers

\* Strings handed to the path functions.
PathStrings == SeqsUpTo(PathChars, MaxPathLen)

\* Archive entries: a name and whether the entry is a symbolic link.
ZipNames ==
    SeqsUpTo({"/", ".", "a", ":"}, ZipNameLen)
        \cup { <<"a", "/", ".", ".", "/", "a">>, <<".", ".", "/", "a">>,
               <<"a", "/", ".", ".", "/", ".", ".", "/", "a">> }

ZipEntries == [name : ZipNames, symlink : BOOLEAN]

NextPaths ==
    \/ \E raw \in PathStrings, platform \in Platforms :
          EvalSafeRelativePath(raw, platform)
    \/ \E format \in {"modrinth", "curseforge"}, str \in PathStrings,
          platform \in Platforms : EvalModDest(format, str, platform)
    \/ \E platform \in Platforms, ok \in BOOLEAN : ExtractZipOpen(platform, ok)
    \/ \E entry \in ZipEntries, io_ok \in BOOLEAN : ExtractZipEntry(entry, io_ok)
    \/ ExtractZipDone

SpecPaths == Init /\ [][NextPaths]_vars

\* Byte values of a peer id: the ends of the byte range and a value in
\* between.
PeerIdByteValues == {0, 10, 255}

\* PeerId::to_bytes of a peer id derived from a key pair is never shorter
\* than CODE_LENGTH (38 bytes for an ed25519 key).
PeerIds ==
    UNION {[1..n -> PeerIdByteValues] : n \in CODE_LENGTH..MaxPeerIdLen}

NextShareCode == \E bytes \in PeerIds : EvalGenerateShareCode(bytes)

SpecShareCode == Init /\ [][NextShareCode]_vars

SpecDiff == Init /\ [][NextDiff]_vars

HitLists(source) == SeqsUpTo(HitsOf(source), MaxHits)

SearchResults(source) == {SearchErr} \cup {SearchOk(h) : h \in HitLists(source)}

\* What get_versions answers: a version for every project, or an error or
\* an empty list for one of them. The version resolved is one of project 1.
Answers ==
    {[failing |-> {}, empty |-> {}]}
      \cup {[failing |-> {p}, empty |-> {}] : p \in Projects}
      \cup {[failing |-> {}, empty |-> {p}] : p \in Projects}

NextMods ==
    \/ \E mr \in HitLists("modrinth"), cf \in HitLists("curseforge") :
          EvalDeduplicateResults(mr, cf)
    \/ \E has_curseforge \in BOOLEAN, mr \in SearchResults("modrinth"),
          cf \in SearchResults("curseforge") :
          EvalSearchMods(has_curseforge, mr, cf)
    \/ \E graph \in [Projects -> SUBSET Projects], answers \in Answers :
          ResolveStart(graph[1], graph, answers.failing, answers.empty)
    \/ ResolveStep

\* The resolver's future is polled until it returns; get_versions is
\* taken to answer.
FairMods == WF_vars(ResolveStep)

SpecMods == Init /\ [][NextMods]_vars /\ FairMods

\* The commands that write the catalog: create_instance, delete_instance,
\* install_mod (one call at a time), and apply_sync with the preview it
\* needs.
NextCatalog ==
    \/ CreateInstance("1.20", None)
    \/ \E id \in 1..MaxInstances, rm_ok \in BOOLEAN : DeleteInstance(id, rm_ok)
    \/ \E c \in {1}, iid \in 1..MaxInstances : InstallModBegin(c, iid)
    \/ \E c \in {1}, ok \in BOOLEAN, file \in ModFiles :
          InstallModFetch(c, ok, file)
    \/ \E c \in {1}, failed \in SUBSET ModFiles : InstallModDownload(c, failed)
    \/ \E c \in {1}, ok \in BOOLEAN : InstallModRegister(c, ok)
    \/ \E iid \in 1..MaxInstances, remote \in RemoteManifests :
          PreviewSync(iid, remote)
    \/ \E a \in {1}, sid \in SessionIds : ApplyGet(a, sid)
    \/ \E a \in {1} : ApplyConfirm(a)
    \/ \E a \in {1}, f \in SyncStoreFaults : ApplyDiff(a, f)
    \/ \E a \in {1} : ApplyComplete(a)

SpecCatalog == Init /\ [][NextCatalog]_vars

\* install_mod and remove_mod on the instances that are created and deleted.
NextRemoveMod ==
    \/ CreateInstance("1.20", None)
    \/ \E id \in 1..MaxInstances, rm_ok \in BOOLEAN : DeleteInstance(id, rm_ok)
    \/ \E c \in {1}, iid \in 1..MaxInstances : InstallModBegin(c, iid)
    \/ \E c \in {1}, ok \in BOOLEAN, file \in ModFiles :
          InstallModFetch(c, ok, file)
    \/ \E c \in {1}, failed \in SUBSET ModFiles : InstallModDownload(c, failed)
    \/ \E c \in {1}, ok \in BOOLEAN : InstallModRegister(c, ok)
    \/ \E mod_id \in 1..MaxMods, active_only, fault, db_ok \in BOOLEAN :
          RemoveMod(mod_id, active_only, fault, db_ok)

SpecRemoveMod == Init /\ [][NextRemoveMod]_vars

\* apply_sync calls in flight together on the sessions that preview_sync
\* created; reject_sync is the other command that writes a status.
NextApply ==
    \/ CreateInstance("1.20", None)
    \/ \E iid \in 1..MaxInstances, remote \in RemoteManifests :
          PreviewSync(iid, remote)
    \/ \E sid \in SessionIds : RejectSync(sid)
    \/ \E a \in Appliers, sid \in SessionIds : ApplyGet(a, sid)
    \/ \E a \in Appliers : ApplyConfirm(a)
    \/ \E a \in Appliers, f \in SyncStoreFaults : ApplyDiff(a, f)
    \/ \E a \in Appliers : ApplyComplete(a)

SpecApply == InitSync /\ [][NextApply]_vars

NextJava ==
    \/ \E k \in StatusCalls : JavaStatusRead(k)
    \/ \E k \in StatusCalls : JavaStatusCheck(k)
    \/ \E k \in StatusCalls : JavaStatusResolve(k)
    \/ JavaInstallLock
    \/ JavaInstallBegin
    \/ \E ok \in BOOLEAN : JavaInstallStage(ok)
    \/ \E ok \in BOOLEAN : JavaInstallFinish(ok)
    \/ JavaInstallDropped
    \/ JavaRuntimeRemoved

SpecJava == Init /\ [][NextJava]_vars

NextP2p ==
    \/ CreateInstance("1.20", None)
    \/ \E ok \in BOOLEAN : StartP2p(ok)
    \/ \E iid \in 1..MaxInstances : ShareModpack(iid)
    \/ StopP2pBegin
    \/ StopStep
    \/ \E s \in Services : LoopStep(s)
    \/ \E s \in Services,
          event \in {"ConnectionEstablished", "ConnectionClosed", "NewListenAddr"} :
          LoopSwarmEvent(s, event)

\* The runtime polls the spawned swarm task and the command's future
\* whenever they can make progress.
FairP2p ==
    /\ \A s \in Services : WF_vars(LoopStep(s))
    /\ WF_vars(StopStep)

SpecP2p == Init /\ [][NextP2p]_vars /\ FairP2p

\* ===========================================================================
\* Properties of the downloader
\* ===========================================================================

\* The cache condition as the claim words it: dest exists, its length is the
\* declared size and, when a sha1 is declared, its sha1 is the declared one.
DeclaredCached(task, dsk) ==
    /\ dsk[task.dest] # None
    /\ BodyLen(dsk[task.dest]) = task.size
    /\ task.sha1 # None => compute_sha1(dsk[task.dest]) = task.sha1

AllSkipped ==
    /\ d_requests = 0
    /\ dprogress.completed_files = Len(d_tasks)
    /\ dprogress.downloaded_bytes = 0
    /\ dprogress.state = "completed"

\* C9 (as stated): when every task's dest exists with the declared length and
\* a matching sha1, download_all issues no request and ends with
\* completed_files = |T|, downloaded_bytes = 0 and state = completed.
C9_CacheSkipsEveryTask ==
    (d_phase = "returned"
       /\ \A i \in DOMAIN d_tasks : DeclaredCached(d_tasks[i], disk_at_call))
    => AllSkipped

\* C9 (amended): the same, for task sets in which every declared size is
\* greater than zero.
C9_CacheSkipsNonEmptyTasks ==
    (d_phase = "returned"
       /\ \A i \in DOMAIN d_tasks :
            DeclaredCached(d_tasks[i], disk_at_call) /\ d_tasks[i].size > 0)
    => AllSkipped

C9_Witness ==
    /\ d_phase = "returned"
    /\ Len(d_tasks) = 2
    /\ \E i \in DOMAIN d_tasks : d_tasks[i].sha1 # None
    /\ \E i \in DOMAIN d_tasks : d_tasks[i].sha1 = None
    /\ \A i \in DOMAIN d_tasks :
          DeclaredCached(d_tasks[i], disk_at_call) /\ d_tasks[i].size > 0
    /\ AllSkipped

\* A task whose attempts all failed for a network error, a non-2xx status or
\* a sha1 mismatch, and that has no attempt left.
Exhausted(i) == d_st[i].pc = "failed" /\ ~d_st[i].io_seen

\* C10: a task whose every attempt fails (network, status, sha1) is attempted
\* at most MAX_RETRIES times, its url is appended to failed_files once,
\* nothing is written to dest, it is not counted in completed_files, and
\* download_all ends with state = failed.
C10_ExhaustedTaskFails ==
    /\ \A i \in DOMAIN d_st :
          /\ d_st[i].gets <= MAX_RETRIES
          /\ Exhausted(i) =>
                /\ d_st[i].gets = MAX_RETRIES
                /\ ~d_st[i].wrote
                /\ disk[d_tasks[i].dest] # disk_at_call[d_tasks[i].dest] =>
                      \E j \in DOMAIN d_st : j # i /\ d_st[j].wrote
                                             /\ d_tasks[j].dest = d_tasks[i].dest
    /\ \A u \in {d_tasks[i].url : i \in DOMAIN d_tasks} :
          Occurrences(dprogress.failed_files, u) =
             Cardinality({i \in DOMAIN d_st :
                            d_st[i].pc = "failed" /\ d_tasks[i].url = u})
    /\ dprogress.completed_files =
          Cardinality({i \in DOMAIN d_st : d_st[i].pc \in {"cached", "done"}})
    /\ (d_phase = "returned" /\ \E i \in DOMAIN d_st : Exhausted(i))
          => dprogress.state = "failed"

C10_Witness ==
    /\ d_phase = "returned"
    /\ \E i \in DOMAIN d_st : Exhausted(i) /\ d_st[i].sha1_seen
    /\ \E i \in DOMAIN d_st : d_st[i].pc = "done"
    /\ dprogress.state = "failed"

\* C11: once an attempt of a task has failed hash verification, no further
\* GET request is issued for that task.
C11_Sha1MismatchNotRetried ==
    [][\A i \in DOMAIN d_st :
          (d_phase = "running" /\ d_phase' = "running" /\ d_st[i].sha1_seen)
          => d_st'[i].gets = d_st[i].gets]_vars

\* C12: a download_all call that returns with a url in failed_files returns
\* an error.
C12_FailuresSurfaced ==
    (d_phase = "returned" /\ dprogress.failed_files # <<>>) => d_ret = "Err"

\* C13: at most one download_all call is active on the shared service at
\* any time, whatever its callers do, and completed_files never exceeds
\* total_files.
C13_SingleActiveCall ==
    /\ Cardinality(ActiveCalls) <= 1
    /\ dprogress.completed_files <= dprogress.total_files

\* A worker of the running call that waits for a permit.
Waiting(i) == i \in DOMAIN d_st /\ d_st[i].pc = "spawned"

\* C14: within one download_all call at most DEFAULT_CONCURRENT workers are
\* inside download_file at any moment, and from every moment on a moment
\* comes at which no worker waits for a permit any more: each waiting worker
\* has got its permit and run.
C14_BoundedWorkers ==
    /\ [](Cardinality(Holding) <= DEFAULT_CONCURRENT)
    /\ []<>(\A i \in 1..MaxPending : ~Waiting(i))

\* All permits are taken, one of them by a worker that is retrying, while
\* another worker waits.
C14_Witness ==
    /\ Cardinality(Holding) = DEFAULT_CONCURRENT
    /\ \E i \in Holding : d_st[i].attempt > 1
    /\ \E i \in DOMAIN d_st : d_st[i].pc = "spawned"

\* ---------------------------------------------------------------------------
\* Path properties (checked under SpecPaths)
\* ---------------------------------------------------------------------------

\* The string has a ".." piece between separators.
HasDotDot(raw, platform) ==
    \E k \in DOMAIN Split(AfterPrefix(raw, platform), Separators(platform)) :
        Split(AfterPrefix(raw, platform), Separators(platform))[k] = <<".", ".">>

\* C15: safe_relative_path(S) is None, or a non-empty relative path whose
\* components are all Normal and which stays under dest when joined to it;
\* it is None for every S that has a root, a drive prefix or a ".."
\* component.
C15_SafeRelativePath ==
    fx.op = "safe_relative_path" =>
        /\ fx.out # <<>> =>
              /\ fx.out[1] # <<>>
              /\ \A k \in DOMAIN components(fx.out[1], fx.platform) :
                    components(fx.out[1], fx.platform)[k].kind = "Normal"
              /\ JoinStaysUnder(fx.out[1], fx.platform)
        /\ (has_root(fx.raw, fx.platform) \/ HasPrefix(fx.raw, fx.platform)
              \/ HasDotDot(fx.raw, fx.platform)) => fx.out = <<>>

\* The entry handled by the last turn of the extraction loop.
LastEntry == fx.entry[1]

Extracting == fx.op = "extract_zip" /\ fx.entry # <<>>

C17_ModDestUnderInstance ==
    (fx.op = "mod_dest" /\ fx.dest # <<>>)
    => LiesUnder(InstancePath, fx.dest[1], fx.platform)

\* ---------------------------------------------------------------------------
\* Diff properties (checked under SpecDiff)
\* ---------------------------------------------------------------------------

SeqRange(q) == {q[k] : k \in DOMAIN q}

\* The active rows of the instance after the evaluated apply_diff.
FinalList == list_instance_mods(fx.mods, 1)

\* C18: with every store operation succeeding, applying compute_diff(L, R)
\* to a store whose list is L leaves a list whose names are those of R, and
\* every row of an updated name carries R's version and hash.
C18_ApplyReachesRemote ==
    (fx.op = "apply_diff" /\ fx.f = NoFault) =>
        /\ {FinalList[k].name : k \in DOMAIN FinalList} = EntryNames(fx.remote)
        /\ \A u \in SeqRange(fx.diff.to_update) :
              \A k \in DOMAIN FinalList :
                 FinalList[k].name = u.mod_name =>
                    /\ FinalList[k].version = by_name(fx.remote)[u.mod_name].mod_version
                    /\ FinalList[k].file_hash = by_name(fx.remote)[u.mod_name].file_hash

\* C19 (as stated): every entry of to_remove, to_add and to_update is
\* attempted whatever fails: its name is in the matching success list or an
\* error names it, and the call returns its summary.
Accounted(entries, done, kinds) ==
    \A e \in SeqRange(entries) :
        \/ e.mod_name \in SeqRange(done)
        \/ \E kd \in kinds : <<kd, e.mod_name>> \in SeqRange(fx.res.errors)

C19_EveryEntryAttempted ==
    fx.op = "apply_diff" =>
        /\ fx.ret = "Ok"
        /\ Accounted(fx.diff.to_remove, fx.res.mods_removed, {"remove"})
        /\ Accounted(fx.diff.to_add, fx.res.mods_added, {"add"})
        /\ Accounted(fx.diff.to_update, fx.res.mods_updated,
                     {"remove_old", "add_updated"})

\* C19 (amended): a failure on one entry leaves the other entries attempted,
\* and a failed listing costs its own pass only: it is recorded once, none
\* of that pass's entries is attempted, and the other passes run in full.
C19_FailureCostsOnePassAtMost ==
    fx.op = "apply_diff" =>
        /\ fx.ret = "Ok"
        /\ Accounted(fx.diff.to_add, fx.res.mods_added, {"add"})
        /\ IF fx.f.list_rm
           THEN /\ <<"list", "removals">> \in SeqRange(fx.res.errors)
                /\ fx.res.mods_removed = <<>>
           ELSE Accounted(fx.diff.to_remove, fx.res.mods_removed, {"remove"})
        /\ IF fx.f.list_up
           THEN /\ <<"list", "updates">> \in SeqRange(fx.res.errors)
                /\ fx.res.mods_updated = <<>>
           ELSE Accounted(fx.diff.to_update, fx.res.mods_updated,
                          {"remove_old", "add_updated"})

\* A removal failed and a later addition still succeeded.
C19_Witness ==
    /\ fx.op = "apply_diff"
    /\ <<"remove", "a">> \in SeqRange(fx.res.errors)
    /\ "b" \in SeqRange(fx.res.mods_added)

\* The last entry of a list that carries the name n.
LastOf(entries, n) ==
    entries[CHOOSE k \in DOMAIN entries :
                /\ entries[k].mod_name = n
                /\ \A j \in DOMAIN entries :
                      entries[j].mod_name = n => j <= k]

\* hashes decide when both sides have one, versions otherwise
Differs(l, r) ==
    IF l.file_hash # None /\ r.file_hash # None
    THEN l.file_hash # r.file_hash
    ELSE l.mod_version # r.mod_version

NoRepeat(q) == Cardinality(SeqRange(q)) = Len(q)

\* C20 (as stated): to_add is the remote entries whose name is not in L,
\* to_remove the local entries whose name is not in R, to_update the remote
\* entries of the names in both that differ, and no name is in two lists.
C20_DiffLists ==
    fx.op = "compute_diff" =>
        LET L == fx.local
            R == fx.remote
            d == fx.diff
        IN /\ SeqRange(d.to_add) =
                 {e \in SeqRange(R) : e.mod_name \notin EntryNames(L)}
           /\ SeqRange(d.to_remove) =
                 {e \in SeqRange(L) : e.mod_name \notin EntryNames(R)}
           /\ EntryNames(d.to_update) =
                 {n \in EntryNames(L) \cap EntryNames(R) :
                     \E l \in SeqRange(L), r \in SeqRange(R) :
                        l.mod_name = n /\ r.mod_name = n /\ Differs(l, r)}
           /\ EntryNames(d.to_add) \cap EntryNames(d.to_remove) = {}
           /\ EntryNames(d.to_add) \cap EntryNames(d.to_update) = {}
           /\ EntryNames(d.to_remove) \cap EntryNames(d.to_update) = {}

\* C20 (amended): the same with each list indexed by name, the last entry
\* of a name standing for it; each list of the diff holds a name once.
C20_DiffListsByName ==
    fx.op = "compute_diff" =>
        LET L == fx.local
            R == fx.remote
            d == fx.diff
        IN /\ SeqRange(d.to_add) =
                 {LastOf(R, n) : n \in EntryNames(R) \ EntryNames(L)}
           /\ SeqRange(d.to_remove) =
                 {LastOf(L, n) : n \in EntryNames(L) \ EntryNames(R)}
           /\ SeqRange(d.to_update) =
                 {[mod_name |-> n,
                   local_version |-> LastOf(L, n).mod_version,
                   remote_version |-> LastOf(R, n).mod_version,
                   remote_file_name |-> LastOf(R, n).file_name,
                   remote_hash |-> LastOf(R, n).file_hash] :
                     n \in {m \in EntryNames(L) \cap EntryNames(R) :
                               Differs(LastOf(L, m), LastOf(R, m))}}
           /\ NoRepeat(d.to_add) /\ NoRepeat(d.to_remove)
           /\ NoRepeat(d.to_update)
           /\ EntryNames(d.to_add) \cap EntryNames(d.to_remove) = {}
           /\ EntryNames(d.to_add) \cap EntryNames(d.to_update) = {}
           /\ EntryNames(d.to_remove) \cap EntryNames(d.to_update) = {}

\* Equal hashes and different versions: no update, next to an addition.
C20_Witness ==
    /\ fx.op = "compute_diff"
    /\ \E l \in SeqRange(fx.local), r \in SeqRange(fx.remote) :
          /\ l.mod_name = r.mod_name
          /\ l.file_hash = "h1" /\ r.file_hash = "h1"
          /\ l.mod_version # r.mod_version
    /\ fx.diff.to_update = <<>>
    /\ fx.diff.to_add # <<>>

\* The lists that hold the entries of q in another order.
Reorderings(q) ==
    { [k \in DOMAIN q |-> q[p[k]]] :
        p \in { f \in [DOMAIN q -> DOMAIN q] :
                  \A i, j \in DOMAIN q : f[i] = f[j] => i = j } }

\* C21: compute_diff on any reordering of the two mods lists returns the
\* same to_add, to_remove and to_update, the lists compared as sets.
C21_DiffOrderInsensitive ==
    fx.op = "compute_diff" =>
        \A l2 \in Reorderings(fx.local), r2 \in Reorderings(fx.remote) :
            LET d2 == compute_diff(Manifest(1, "1.20", None, l2),
                                   Manifest("remote", "1.20", None, r2))
            IN /\ SeqRange(d2.to_add) = SeqRange(fx.diff.to_add)
               /\ SeqRange(d2.to_remove) = SeqRange(fx.diff.to_remove)
               /\ SeqRange(d2.to_update) = SeqRange(fx.diff.to_update)

\* ===========================================================================
\* Properties of the pending-sync state machine
\* ===========================================================================

Status(ps, sid) == ps[sid].status

LegalTransitions ==
    { <<"awaiting", "syncing">>, <<"syncing", "completed">>,
      <<"awaiting", "rejected">> }

\* C5 (as stated): a session's status only changes along awaiting -> syncing,
\* syncing -> completed or awaiting -> rejected; any other call fails and
\* leaves the status unchanged.
C5_OnlyLegalTransitions ==
    [][\A sid \in DOMAIN pending_syncs \cap DOMAIN pending_syncs' :
          Status(pending_syncs, sid) # Status(pending_syncs', sid)
          => <<Status(pending_syncs, sid), Status(pending_syncs', sid)>>
                \in LegalTransitions]_vars

\* The step is a call of command op on session sid.
IsCall(op, sid) ==
    /\ sync_last'.op = op
    /\ sync_last'.sid = sid
    /\ vars' # vars

\* C6: confirm_sync succeeds only on an existing awaiting session, which it
\* moves to syncing, returning the stored diff; otherwise it fails and changes
\* nothing; the stored diff never changes and no session becomes awaiting
\* again, so a session is confirmed at most once.
C6_ConfirmRequiresAwaiting ==
    [][/\ \A sid \in SessionIds :
            IsCall("confirm_sync", sid) =>
              IF sid \in DOMAIN pending_syncs
                   /\ Status(pending_syncs, sid) = "awaiting"
              THEN /\ sync_last'.ok
                   /\ sync_last'.ret = pending_syncs[sid].diff
                   /\ pending_syncs' =
                        [pending_syncs EXCEPT ![sid].status = "syncing"]
                   /\ UNCHANGED cvars
              ELSE /\ ~sync_last'.ok
                   /\ UNCHANGED <<pending_syncs, cvars>>
       /\ \A sid \in DOMAIN pending_syncs \cap DOMAIN pending_syncs' :
            /\ pending_syncs'[sid].diff = pending_syncs[sid].diff
            /\ pending_syncs[sid].diff =
                 compute_diff(pending_syncs[sid].local_manifest,
                              pending_syncs[sid].remote_manifest)
            /\ Status(pending_syncs, sid) # "awaiting"
                 => Status(pending_syncs', sid) # "awaiting"]_vars

C6_Witness ==
    /\ sync_last.op = "confirm_sync"
    /\ ~sync_last.ok
    /\ sync_last.err = "NotAwaiting"
    /\ sync_last.sid \in DOMAIN pending_syncs
    /\ Status(pending_syncs, sync_last.sid) = "syncing"
    /\ pending_syncs[sync_last.sid].diff.to_add # <<>>

\* C7 (as stated): completed and rejected are terminal: no confirm_sync,
\* reject_sync or complete_sync call changes such a status, and the entry
\* stays until cleanup_finished removes it.
C7_TerminalStatesAreFinal ==
    [][\A sid \in DOMAIN pending_syncs :
          Status(pending_syncs, sid) \in {"completed", "rejected"} =>
             IF sid \in DOMAIN pending_syncs'
             THEN Status(pending_syncs', sid) = Status(pending_syncs, sid)
             ELSE sync_last'.op = "cleanup_finished"]_vars

\* C8: the catalog changes only in the apply_diff step of an apply_sync call
\* whose own confirm_sync found the session awaiting; preview_sync changes no
\* catalog row; apply_sync on a missing or non-awaiting session fails and
\* changes no catalog row.
C8_ApplyOnlyAfterConfirm ==
    [][/\ cvars' # cvars /\ sync_last'.op # "create_instance" =>
            \E a \in Appliers :
               /\ ap[a].pc = "confirmed"
               /\ ap'[a].pc = "applied"
               /\ ap[a].status_at_confirm = "awaiting"
               /\ sync_last'.op = "apply_diff"
               /\ UNCHANGED db_instances
       /\ \A sid \in 0..MaxSessions :
            IsCall("preview_sync", sid) => UNCHANGED cvars
       /\ \A a \in Appliers :
            (/\ ap[a].pc = "got"
             /\ ap'[a] # ap[a]
             /\ \/ ap[a].sid \notin DOMAIN pending_syncs
                \/ Status(pending_syncs, ap[a].sid) # "awaiting")
            => /\ ap'[a].pc = "idle"
               /\ sync_last'.op = "apply_sync"
               /\ ~sync_last'.ok
               /\ UNCHANGED <<cvars, pending_syncs>>
       /\ \A sid \in SessionIds :
            (IsCall("apply_get", sid) \/ IsCall("apply_sync", sid))
              /\ sid \notin DOMAIN pending_syncs /\ ap' = ap
            => /\ sync_last'.op = "apply_sync"
               /\ ~sync_last'.ok
               /\ UNCHANGED <<cvars, pending_syncs>>]_vars

C8_Witness ==
    \E a \in Appliers :
       /\ ap[a].pc = "applied"
       /\ ap[a].status_at_confirm = "awaiting"
       /\ Len(db_mods) >= 2
       /\ \E k \in DOMAIN db_mods : ~db_mods[k].is_active

\* ---------------------------------------------------------------------------
\* Install properties (checked under Spec)
\* ---------------------------------------------------------------------------

AtRest(c) == inv[c].pc \in {"idle", "returned"}

\* C1: at most one invocation of install_modpack / install_mod holds the
\* install flag at any time, and an invocation that starts while the flag is
\* held returns AlreadyInProgress in that step, leaving InstallProgress, the
\* flag, the catalog and the instance directories as they were.
C1_SingleInstall ==
    /\ [](Cardinality({c \in Installers : inv[c].guard}) <= 1)
    /\ [][\A c \in Installers :
            (install_in_progress /\ AtRest(c) /\ inv'[c] # inv[c])
            => /\ inv'[c].pc = "returned"
               /\ ~inv'[c].ok
               /\ inv'[c].err = "AlreadyInProgress"
               /\ iprogress' = iprogress
               /\ install_in_progress' = install_in_progress
               /\ cvars' = cvars
               /\ fs_dirs' = fs_dirs]_vars

\* An install_mod invocation holds the flag and an install_modpack invocation
\* that started meanwhile was turned away.
C1_Witness ==
    \E c, d \in Installers :
        /\ inv[c].guard /\ inv[c].kind = "mod"
        /\ inv[d].pc = "returned" /\ inv[d].kind = "modpack"
        /\ inv[d].err = "AlreadyInProgress"

\* C2: whenever every invocation has returned, whatever way it returned, the
\* install flag is clear and begin_install succeeds again.
C2_FlagReleasedOnReturn ==
    (\A c \in Installers : AtRest(c))
    => /\ install_in_progress = FALSE
       /\ begin_install(install_in_progress).ok

\* An invocation that held the flag returned an error, and another one
\* acquired the flag after it.
C2_Witness ==
    \E c, d \in Installers :
        /\ inv[c].pc = "returned" /\ ~inv[c].ok
        /\ inv[c].err \notin {"AlreadyInProgress", "InstanceNotFound"}
        /\ inv[d].guard

\* C3: after an install_modpack invocation in which one of the listed steps
\* failed has returned, the instance directory of its instance id does not
\* exist and the catalog holds no instance row and no mod row for that id.
C3_RollbackLeavesNothing ==
    \A c \in Installers :
        (inv[c].pc = "returned" /\ inv[c].kind = "modpack"
            /\ inv[c].first_failure # None)
        => /\ inv[c].instance_id \notin fs_dirs
           /\ get_instance(db_instances, inv[c].instance_id) = <<>>
           /\ \A k \in DOMAIN db_mods :
                db_mods[k].instance_id # inv[c].instance_id

\* C4: the step install_mod takes after a download in which the file failed
\* every attempt returns an error and leaves the catalog unchanged.
C4_NoRecordWithoutDownload ==
    [][\A c \in Installers :
          (inv[c].kind = "mod" /\ ~AtRest(c)
              /\ inv[c].first_failure = "mod_download" /\ inv'[c] # inv[c])
          => /\ inv'[c].pc = "returned"
             /\ ~inv'[c].ok
             /\ cvars' = cvars]_vars

\* The place of a stage in the pipeline (the order of InstallStage).
StageRank(type) ==
    CASE type = "FetchingInfo" -> 1
      [] type = "DownloadingPack" -> 2
      [] type = "ExtractingPack" -> 3
      [] type = "CreatingInstance" -> 4
      [] type = "DownloadingMinecraft" -> 5
      [] type = "InstallingLoader" -> 6
      [] type = "ResolvingMods" -> 7
      [] type = "DownloadingMods" -> 8
      [] type = "CopyingOverrides" -> 9
      [] type = "RegisteringMods" -> 10
      [] type = "Completed" -> 11
      [] type = "Failed" -> 12

\* An install_modpack invocation that holds the flag and has published.
Running(c) == inv[c].kind = "modpack" /\ inv[c].guard

\* The step publishes a progress (stage and percent).
Published ==
    \/ iprogress'.stage # iprogress.stage
    \/ iprogress'.overall_percent # iprogress.overall_percent

\* C22: every stage an install_modpack run publishes is at or after the
\* one published before it in the pipeline order; InstallingLoader is
\* published for a non-vanilla loader only, Completed directly after
\* RegisteringMods only, and nothing is published after Failed.
C22_StagesMoveForward ==
    [][\A c \in Installers :
          (Running(c) /\ Published) =>
             /\ StageRank(iprogress'.stage.type) >= StageRank(iprogress.stage.type)
             /\ iprogress.stage.type # "Failed"
             /\ iprogress'.stage.type = "InstallingLoader" =>
                   inv[c].pack.loader # "vanilla"
             /\ iprogress'.stage.type = "Completed" =>
                   iprogress.stage.type = "RegisteringMods"]_vars

\* A run with a loader has gone through the stages up to RegisteringMods.
C22_Witness ==
    \E c \in Installers :
        /\ Running(c) /\ inv[c].pc = "mp_persist"
        /\ inv[c].pack.loader # "vanilla"
        /\ iprogress.stage.type = "RegisteringMods"

\* C23: the step in which an install_modpack invocation that holds the
\* flag returns an error leaves Failed with that error's message as the
\* published stage.
C23_ErrorPublishesFailed ==
    [][\A c \in Installers :
          (Running(c) /\ inv'[c].pc = "returned" /\ ~inv'[c].ok) =>
             iprogress'.stage = Failed(inv'[c].err)]_vars

\* C24: once P2pService::stop has returned for a service, the swarm task
\* of that service has left its loop or leaves it later, whatever the
\* order of the steps of stop and of the loop.
C24_StopEndsLoop ==
    \A s \in Services :
        (p2p_state.pc = "stop_returned" /\ p2p_state.service = s)
            ~> (p2p[s].loop = "exited")

\* stop has returned while the loop, having taken Shutdown off the channel
\* before the flag was cleared, waits in select with nothing to receive.
C24_Witness ==
    \E s \in Services :
        /\ p2p_state.pc = "stop_returned" /\ p2p_state.service = s
        /\ p2p[s].loop = "select" /\ p2p[s].chan = <<>>
        /\ ~p2p[s].running

\* C25: of two manifests shared by one started service, the later carries
\* the greater manifest_version.
C25_ManifestVersionIncreases ==
    \A s \in Services :
        \A i, j \in DOMAIN p2p[s].shared :
            i < j => p2p[s].shared[j].manifest_version
                        > p2p[s].shared[i].manifest_version

\* C26: the merged result holds each lowercased slug at most once, and for
\* a slug that both platforms returned the entry kept is Modrinth's.
C26_MergedSlugsUnique ==
    fx.op = "deduplicate_results" =>
        /\ \A i, j \in DOMAIN fx.merged :
              to_lowercase(fx.merged[i].slug) = to_lowercase(fx.merged[j].slug)
                 => i = j
        /\ \A k \in DOMAIN fx.merged :
              (\E m \in DOMAIN fx.modrinth :
                  to_lowercase(fx.modrinth[m].slug)
                     = to_lowercase(fx.merged[k].slug))
                 => fx.merged[k].source = "modrinth"

\* C26 (amended): when Modrinth's own list holds each lowercased slug once,
\* the merged result holds each lowercased slug at most once, repeats
\* inside the CurseForge list included, and a slug of both platforms keeps
\* Modrinth's entry.
C26_MergedSlugsUniqueAcrossPlatforms ==
    (/\ fx.op = "deduplicate_results"
     /\ NoRepeat([k \in DOMAIN fx.modrinth |-> to_lowercase(fx.modrinth[k].slug)]))
        => C26_MergedSlugsUnique

\* A slug returned by both platforms in different case was merged.
C26_Witness ==
    /\ fx.op = "deduplicate_results"
    /\ \E m \in DOMAIN fx.modrinth, c \in DOMAIN fx.curseforge :
          /\ fx.modrinth[m].slug # fx.curseforge[c].slug
          /\ to_lowercase(fx.modrinth[m].slug) = to_lowercase(fx.curseforge[c].slug)
    /\ Len(fx.merged) < Len(fx.modrinth) + Len(fx.curseforge)
    /\ Len(fx.merged) > 1

\* C27: search_mods succeeds whatever platform fails, the hits of a failed
\* platform counting as none, with and without the CurseForge client.
C27_SearchIsolatesFailures ==
    fx.op = "search_mods" =>
        /\ fx.out.ok
        /\ ~fx.mr_result.ok =>
              \A k \in DOMAIN fx.out.hits : fx.out.hits[k].source # "modrinth"
        /\ (~fx.cf_result.ok \/ ~fx.has_curseforge) =>
              \A k \in DOMAIN fx.out.hits : fx.out.hits[k].source # "curseforge"
        /\ (~fx.mr_result.ok /\ ~fx.cf_result.ok) => fx.out.hits = <<>>

\* The Required dependencies reachable from the seed through projects whose
\* get_versions returns a version.
RECURSIVE Reach(_, _)
Reach(r, found) ==
    LET more == found \cup
                UNION {r.graph[p] : p \in found \ (r.failing \cup r.empty)}
    IN IF more = found THEN found ELSE Reach(r, more)

\* C28 (safety): get_versions is asked at most once per project and for
\* Required dependencies only, the resolved list holds a project at most
\* once, and a returned resolution is Ok and holds every reachable project
\* that has a version, an erroring dependency being left out alone.
C28_ResolveOnce ==
    fx.op = "resolve_dependencies" =>
        /\ NoRepeat(fx.queried) /\ NoRepeat(fx.resolved)
        /\ OptionalProject \notin SeqRange(fx.queried)
        /\ fx.pc = "returned" =>
              /\ fx.ret = "Ok"
              /\ SeqRange(fx.queried) = Reach(fx, fx.seed)
              /\ SeqRange(fx.resolved) =
                    Reach(fx, fx.seed) \ (fx.failing \cup fx.empty)

\* C28: resolve_dependencies returns for every dependency graph, and all
\* along the limits of C28_ResolveOnce hold.
C28_ResolveTerminates ==
    /\ [](fx.op = "resolve_dependencies" =>
            <>(fx.op = "resolve_dependencies" /\ fx.pc = "returned"))
    /\ []C28_ResolveOnce

\* A resolution of a cyclic graph returned, one dependency having failed
\* and another being resolved.
C28_Witness ==
    /\ fx.op = "resolve_dependencies" /\ fx.pc = "returned"
    /\ \E p, q \in Projects :
          /\ p # q /\ q \in fx.graph[p] /\ p \in fx.graph[q]
          /\ p \in fx.failing /\ p \in SeqRange(fx.queried)
          /\ q \in SeqRange(fx.resolved)

\* C29: no instance has two active mod rows with one file name.
C29_ActiveFileNamesUnique ==
    \A i, j \in DOMAIN db_mods :
        (/\ db_mods[i].is_active /\ db_mods[j].is_active
         /\ db_mods[i].instance_id = db_mods[j].instance_id
         /\ db_mods[i].file_name = db_mods[j].file_name) => i = j

\* C30: every active mod row references an active instance.
C30_ActiveModsHaveActiveInstance ==
    \A k \in DOMAIN db_mods :
        db_mods[k].is_active =>
            get_instance(db_instances, db_mods[k].instance_id) # <<>>

SeqElems(s) == {s[i] : i \in DOMAIN s}

CodeSuffix == SubSeq(fx.code, Len(SHARE_CODE_PREFIX) + 1, Len(fx.code))

WellFormedCode ==
    /\ Len(fx.code) = Len(SHARE_CODE_PREFIX) + CODE_LENGTH
    /\ SubSeq(fx.code, 1, Len(SHARE_CODE_PREFIX)) = SHARE_CODE_PREFIX
    /\ SeqElems(CodeSuffix) \subseteq SeqElems(CODE_ALPHABET)
    /\ Cardinality(SeqElems(CODE_ALPHABET)) = 32

FinishedSessions(ps) == {sid \in DOMAIN ps : ps[sid].status \in {"completed", "rejected"}}

\* C32: no step removes a session that is awaiting or syncing (get_pending_sync
\* keeps returning it), and a cleanup_finished step removes exactly the
\* completed and rejected sessions, leaves the others as they were and returns
\* the number removed.
C32_CleanupDropsTerminalOnly ==
    [][/\ \A sid \in DOMAIN pending_syncs \ FinishedSessions(pending_syncs) :
             get_pending_sync(pending_syncs', sid) # <<>>
       /\ sync_last'.op = "cleanup_finished" =>
             /\ DOMAIN pending_syncs' = DOMAIN pending_syncs \ FinishedSessions(pending_syncs)
             /\ \A sid \in DOMAIN pending_syncs' :
                    pending_syncs'[sid] = pending_syncs[sid]
             /\ \A sid \in FinishedSessions(pending_syncs) :
                    get_pending_sync(pending_syncs', sid) = <<>>
             /\ sync_last'.ret = Cardinality(FinishedSessions(pending_syncs))]_vars

\* A cleanup removed one finished session and kept one that is syncing.
C32_Witness ==
    /\ sync_last.op = "cleanup_finished"
    /\ sync_last.ret = 1
    /\ \E sid \in DOMAIN pending_syncs : pending_syncs[sid].status = "syncing"

RowOf(mods, id) == mods[CHOOSE k \in DOMAIN mods : mods[k].id = id]

PathOf(row) == <<row.instance_id, row.file_name>>

\* C33: a remove_mod call whose remove_file found no file succeeds (unless
\* the catalog write fails) with the record deactivated; one whose
\* remove_file failed otherwise fails and leaves the catalog and the file as
\* they were; after a successful call the record is not listed by
\* list_instance_mods and its file is not on disk.
C33_RemoveMod ==
    [][(sync_last'.op = "remove_mod" /\ inv' = inv) =>
         LET id == sync_last'.sid
         IN /\ (sync_last'.ret = "NotFound" /\ sync_last'.err # "catalog")
                  => sync_last'.ok
            /\ sync_last'.ret = "Other"
                  => /\ ~sync_last'.ok
                     /\ db_mods' = db_mods
                     /\ mod_files' = mod_files
            /\ sync_last'.ok
                  => /\ \E k \in DOMAIN db_mods : db_mods[k].id = id
                     /\ ~RowOf(db_mods', id).is_active
                     /\ \A k \in DOMAIN list_instance_mods(db_mods',
                                           RowOf(db_mods, id).instance_id) :
                           list_instance_mods(db_mods',
                               RowOf(db_mods, id).instance_id)[k].id # id
                     /\ PathOf(RowOf(db_mods, id)) \notin mod_files']_vars

\* remove_mod succeeded on a record whose file was already gone while another
\* record is still active.
C33_Witness ==
    /\ sync_last.op = "remove_mod"
    /\ sync_last.ok
    /\ sync_last.ret = "NotFound"
    /\ \E k \in DOMAIN db_mods : db_mods[k].is_active

\* The snapshot names an instance (an Option that is Some).
HasInstanceId(p) == ToString(p.instance_id) # ToString(None)

SameId(x, y) == ToString(x) = ToString(y)

\* The invocation takes the flag in this step.
Starts(c) == ~inv[c].guard /\ inv'[c].guard

C35_BytesCountCompletedTasks ==
    dprogress.downloaded_bytes =
        SeqSum([i \in DOMAIN d_st |->
                  IF d_st[i].pc = "done" THEN d_st[i].bytes ELSE 0])

\* C37: when download_all has returned, every task was counted as completed
\* or as failed, and a completed state means that every task's file was
\* cache-skipped or written.
C37_EveryTaskAccounted ==
    d_phase = "returned" =>
        /\ dprogress.completed_files + Len(dprogress.failed_files)
              = dprogress.total_files
        /\ dprogress.state = "completed" =>
              \A i \in DOMAIN d_st : d_st[i].pc \in {"cached", "done"}

\* The step is one of status call k.
StatusStep(k) == java'.calls[k] # java.calls[k]

\* C36: while an install_runtime call holds the install lock and has
\* published Installing, a step of a status call stores no other status and
\* returns no other status; and a status call returns Installing only while
\* the lock is held.
C36_StatusInstalling ==
    [][\A k \in StatusCalls : StatusStep(k) =>
          /\ (java.install \in InstallStages /\ java.status.type = "Installing") =>
                /\ java'.status = java.status
                /\ java'.calls[k].pc = "returned" =>
                      java'.calls[k].ret.type = "Installing"
          /\ (java'.calls[k].pc = "returned"
                /\ java'.calls[k].ret.type = "Installing") => java.install_lock]_vars

\* Appliers that got past confirm_sync for session sid and have not returned.
PastConfirm(sid) ==
    {a \in Appliers : ap[a].pc \in {"confirmed", "applied"} /\ ap[a].sid = sid}

\* C38: an apply_sync call gets past confirm_sync only for a session that
\* is awaiting and that no other call is applying; a session that left
\* awaiting never returns to it; a call refused by confirm_sync for a session
\* that exists fails with the not-awaiting error and leaves the catalog as
\* it is; only a call past confirm_sync writes the catalog.
C38_OneApplyPerSession ==
    [][/\ \A a \in Appliers :
            /\ (ap[a].pc = "got" /\ ap'[a].pc = "confirmed") =>
                  /\ pending_syncs[ap[a].sid].status = "awaiting"
                  /\ PastConfirm(ap[a].sid) = {}
            /\ (ap[a].pc = "got" /\ ap'[a].pc = "idle") =>
                  /\ ~sync_last'.ok
                  /\ sync_last'.err = "NotAwaiting"
                  /\ db_mods' = db_mods
       /\ \A sid \in DOMAIN pending_syncs :
            pending_syncs[sid].status # "awaiting" =>
                pending_syncs'[sid].status # "awaiting"
       /\ db_mods' # db_mods =>
            \E a \in Appliers : ap[a].pc = "confirmed" /\ ap'[a].pc = "applied"]_vars

\* One call is applying a session's diff while another call for the same
\* session has just been refused.
C38_Witness ==
    /\ sync_last.op = "apply_sync"
    /\ ~sync_last.ok
    /\ sync_last.err = "NotAwaiting"
    /\ \E a \in Appliers : ap[a].pc = "confirmed" /\ ap[a].sid = sync_last.sid

\* C39: is_running() is true only while the swarm task is alive: whenever the
\* network loop of a service has returned, on whatever path (listen failure
\* at startup, command channel closed, shutdown), its flag is false.
C39_RunningOnlyWhileAlive ==
    \A s \in Services :
        p2p[s].loop = "exited" => ~p2p[s].running

\* C40: the list resolve_dependencies returns never contains a version of the
\* seed version's own project (project 1, whose first version is the seed),
\* also when a required dependency requires the seed's project back. The
\* seed is taken not to require its own project directly.
C40_SeedProjectNotResolved ==
    (fx.op = "resolve_dependencies" /\ fx.pc = "returned" /\ 1 \notin fx.seed) =>
        1 \notin SeqRange(fx.resolved)

====
